---- MODULE Spec2Model ----
(***************************************************************************)
(* Model of the inventory valuation pipeline of src/main.py: the item      *)
(* catalog and its index, the name matcher, the currency normalizer, the   *)
(* scrape of one profile page (scrape_inventory) and the two entry points  *)
(* that start scrapes (the inventory command handler and get_inventory).   *)
(*                                                                         *)
(* Texts are sequences of one-character strings.  A currency value is a    *)
(* fixed-point number counted in hundredths (50.0 is 5000).                *)
(***************************************************************************)
EXTENDS Integers, Sequences, FiniteSets, Bags, TLC

\* ------------------------------------------------------------------ texts

UpperChars == <<"A","B","C","D","E","F","G","H","I","J","K","L","M",
                "N","O","P","Q","R","S","T","U","V","W","X","Y","Z">>
LowerChars == <<"a","b","c","d","e","f","g","h","i","j","k","l","m",
                "n","o","p","q","r","s","t","u","v","w","x","y","z">>
DigitChars == <<"0","1","2","3","4","5","6","7","8","9">>

Range(s) == {s[i] : i \in 1..Len(s)}

IsDigit(c) == c \in Range(DigitChars)
\* \s of the regular expressions and the characters str.strip() removes
IsSpace(c) == c \in {" ", "\t", "\n"}
\* \w of the regular expressions
IsWord(c) == c \in Range(UpperChars) \cup Range(LowerChars) \cup Range(DigitChars) \cup {"_"}

DigitVal(c) == (CHOOSE i \in 1..10 : DigitChars[i] = c) - 1

LowerChar(c) ==
    IF c \in Range(UpperChars)
    THEN LowerChars[CHOOSE i \in 1..26 : UpperChars[i] = c]
    ELSE c

\* str.lower()
Lower(s) == [i \in 1..Len(s) |-> LowerChar(s[i])]

\* str.strip()
Strip(s) ==
    LET keep == {i \in 1..Len(s) : ~IsSpace(s[i])}
    IN  IF keep = {} THEN <<>>
        ELSE LET lo == CHOOSE i \in keep : \A j \in keep : i <= j
                 hi == CHOOSE i \in keep : \A j \in keep : j <= i
             IN  SubSeq(s, lo, hi)

\* the operator `a in b' on two strings
Contains(a, b) ==
    \E i \in 0..(Len(b) - Len(a)) : SubSeq(b, i + 1, i + Len(a)) = a

\* a clean form in which a run of whitespace also becomes one space
CleanName_CollapsesSpaces(s) ==
    LET kept == SelectSeq(s, LAMBDA c : IsWord(c) \/ IsSpace(c))
        keep == {i \in 1..Len(kept) : ~(IsSpace(kept[i]) /\ i > 1 /\ IsSpace(kept[i - 1]))}
        Nth(n) == CHOOSE i \in keep : Cardinality({j \in keep : j <= i}) = n
    IN  [n \in 1..Cardinality(keep) |-> IF IsSpace(kept[Nth(n)]) THEN " " ELSE kept[Nth(n)]]

\* re.sub(r'[^\w\s]', '', s)
CleanName(s) == SelectSeq(s, LAMBDA c : IsWord(c) \/ IsSpace(c))

\* int() of a string of digits
RECURSIVE DigitsToInt(_)
DigitsToInt(s) ==
    IF s = <<>> THEN 0
    ELSE 10 * DigitsToInt(SubSeq(s, 1, Len(s) - 1)) + DigitVal(s[Len(s)])

\* the length of the longest prefix of s made of digits
RECURSIVE DigitRun(_)
DigitRun(s) ==
    IF s = <<>> \/ ~IsDigit(s[1]) THEN 0 ELSE 1 + DigitRun(Tail(s))

\* ---------------------------------------------------------------- catalog

\* a key a dict does not hold, the value None
NoKey == <<"<no key>">>
None  == [none |-> TRUE]

\* A dict keeps its keys in insertion order: a sequence of [key, value].
DictHas(d, k) == \E i \in 1..Len(d) : d[i].key = k
DictGet(d, k) == d[CHOOSE i \in 1..Len(d) : d[i].key = k].value
\* d[k] = v: a key already present keeps its place
DictSet(d, k, v) ==
    IF DictHas(d, k)
    THEN [i \in 1..Len(d) |-> IF d[i].key = k THEN [key |-> k, value |-> v] ELSE d[i]]
    ELSE Append(d, [key |-> k, value |-> v])

CuteCowboy ==
    [name   |-> <<"C","u","t","e"," ","C","o","w","b","o","y">>,
     usd    |-> <<"$","5","0",".","0","0">>,
     coins  |-> <<"3",",","0","0","0",",","0","0","0"," ","C","o","i","n","s">>,
     shards |-> <<"2","5","0",",","0","0","0"," ","S","h","a","r","d","s">>]

Antler ==
    [name   |-> <<"A","n","t","l","e","r">>,
     usd    |-> <<"$","1",".","0","0">>,
     coins  |-> <<"6","0",",","0","0","0"," ","C","o","i","n","s">>,
     shards |-> <<"5",",","0","0","0"," ","S","h","a","r","d","s">>]

\* the document written when items.json does not exist
dummy_data == [kind |-> "ok", items |-> <<CuteCowboy, Antler>>]

\* items.json as load_items_database finds it: whether it exists, whether
\* the directory lets it be created, and the document it holds
ItemsFile(exists, writable, kind, items) ==
    [exists |-> exists, writable |-> writable, data |-> [kind |-> kind, items |-> items]]

\* no file, in a directory that lets it be created
NoItemsFile == ItemsFile(FALSE, TRUE, "malformed", <<>>)

\* The catalog sources: no file (the dummy file can be written, or not); a
\* readable file with the items collection; a file that is not JSON; a file
\* without the 'items' key.
ItemsFiles ==
    { NoItemsFile,
      ItemsFile(FALSE, FALSE, "malformed", <<>>),
      ItemsFile(TRUE, TRUE, "ok", <<Antler>>),
      ItemsFile(TRUE, TRUE, "malformed", <<>>),
      ItemsFile(TRUE, TRUE, "nokey", <<>>) }

\* a loop over the items that ends at the first entry without a 'name'
RECURSIVE BuildLookup_StopsAtNameless(_, _)
BuildLookup_StopsAtNameless(items, lookup) ==
    IF items = <<>> THEN lookup
    ELSE LET item == Head(items)
         IN  IF item.name # NoKey
             THEN LET name_lower == Strip(Lower(item.name))
                      name_clean == CleanName(name_lower)
                  IN  BuildLookup_StopsAtNameless(Tail(items),
                          DictSet(DictSet(lookup, name_lower, item), name_clean, item))
             ELSE lookup

\* a loop over the items that keeps the entry a key already has
RECURSIVE BuildLookup_FirstWins(_, _)
BuildLookup_FirstWins(items, lookup) ==
    IF items = <<>> THEN lookup
    ELSE LET item == Head(items)
         IN  IF item.name # NoKey
             THEN LET name_lower == Strip(Lower(item.name))
                      name_clean == CleanName(name_lower)
                      first      == IF DictHas(lookup, name_lower) THEN lookup
                                    ELSE DictSet(lookup, name_lower, item)
                      second     == IF DictHas(first, name_clean) THEN first
                                    ELSE DictSet(first, name_clean, item)
                  IN  BuildLookup_FirstWins(Tail(items), second)
             ELSE BuildLookup_FirstWins(Tail(items), lookup)

\* the loop of load_items_database over items_data['items']
RECURSIVE BuildLookup(_, _)
BuildLookup(items, lookup) ==
    IF items = <<>> THEN lookup
    ELSE LET item == Head(items)
         IN  IF item.name # NoKey
             THEN LET name_lower == Strip(Lower(item.name))
                      name_clean == CleanName(name_lower)
                  IN  BuildLookup(Tail(items),
                          DictSet(DictSet(lookup, name_lower, item), name_clean, item))
             ELSE BuildLookup(Tail(items), lookup)

\* a loader that treats a missing file like an unreadable one
load_items_database_NoDummy(file) ==
    IF file.exists /\ file.data.kind = "ok" THEN BuildLookup(file.data.items, <<>>)
    ELSE <<>>

\* A missing file is first written with dummy_data and then read; every
\* exception (the write, the parse, the missing 'items' key) gives {}.
load_items_database(file) ==
    IF ~file.exists /\ ~file.writable THEN <<>>
    ELSE LET items_data == IF file.exists THEN file.data ELSE dummy_data
         IN  IF items_data.kind = "ok" THEN BuildLookup(items_data.items, <<>>)
             ELSE <<>>

\* ---------------------------------------------------------------- matcher

\* a partial match on containment alone
Qualifies_NoRatio(item_name_clean, key) ==
    /\ Len(item_name_clean) > 4
    /\ Len(key) > 4
    /\ (Contains(item_name_clean, key) \/ Contains(key, item_name_clean))

\* a partial match without the test of the two lengths against 4
Qualifies_NoThreshold(item_name_clean, key) ==
    LET shorter == IF Len(item_name_clean) < Len(key) THEN Len(item_name_clean) ELSE Len(key)
        longer  == IF Len(item_name_clean) < Len(key) THEN Len(key) ELSE Len(item_name_clean)
    IN  /\ longer > 0
        /\ 10 * shorter >= 8 * longer
        /\ (Contains(item_name_clean, key) \/ Contains(key, item_name_clean))

\* the test of the partial match on one key: shorter / longer >= 0.8 is the
\* comparison of 10 * shorter with 8 * longer
Qualifies(item_name_clean, key) ==
    LET shorter == IF Len(item_name_clean) < Len(key) THEN Len(item_name_clean) ELSE Len(key)
        longer  == IF Len(item_name_clean) < Len(key) THEN Len(key) ELSE Len(item_name_clean)
    IN  /\ Len(item_name_clean) > 4
        /\ Len(key) > 4
        /\ 10 * shorter >= 8 * longer
        /\ (Contains(item_name_clean, key) \/ Contains(key, item_name_clean))

\* a matcher whose loop keeps the last key that qualifies
find_item_in_database_LastCandidate(item_name, lookup) ==
    LET item_name_lower == Strip(Lower(item_name))
        item_name_clean == CleanName(item_name_lower)
        hits == {i \in 1..Len(lookup) : Qualifies(item_name_clean, lookup[i].key)}
    IN  IF DictHas(lookup, item_name_lower) THEN DictGet(lookup, item_name_lower)
        ELSE IF DictHas(lookup, item_name_clean) THEN DictGet(lookup, item_name_clean)
        ELSE IF hits # {} THEN lookup[CHOOSE i \in hits : \A j \in hits : j <= i].value
        ELSE None

find_item_in_database(item_name, lookup) ==
    LET item_name_lower == Strip(Lower(item_name))
        item_name_clean == CleanName(item_name_lower)
        hits == {i \in 1..Len(lookup) : Qualifies(item_name_clean, lookup[i].key)}
    IN  IF DictHas(lookup, item_name_lower) THEN DictGet(lookup, item_name_lower)
        ELSE IF DictHas(lookup, item_name_clean) THEN DictGet(lookup, item_name_clean)
        ELSE IF hits # {} THEN lookup[CHOOSE i \in hits : \A j \in hits : i <= j].value
        ELSE None

\* --------------------------------------------------------------- currency

\* float() of a string of digits and decimal points: <<v>>, v in hundredths,
\* and <<>> when float() raises ValueError
FloatOf(cleaned) ==
    LET dots == {i \in 1..Len(cleaned) : cleaned[i] = "."}
    IN  IF Cardinality(dots) > 1 \/ Cardinality(dots) = Len(cleaned) THEN <<>>
        ELSE IF dots = {} THEN <<100 * DigitsToInt(cleaned)>>
        ELSE LET d    == CHOOSE i \in dots : TRUE
                 int  == SubSeq(cleaned, 1, d - 1)
                 frac == SubSeq(cleaned, d + 1, Len(cleaned))
                 f2   == SubSeq(frac \o <<"0","0">>, 1, 2)
             IN  <<100 * DigitsToInt(int) + DigitsToInt(f2)>>

\* a normalizer whose pattern also removes the decimal point
parse_currency_DropsPoint(value_str) ==
    IF value_str = <<>> \/ value_str = <<"N","/","A">> THEN 0
    ELSE LET cleaned == SelectSeq(value_str, LAMBDA c : IsDigit(c))
         IN  IF cleaned = <<>> THEN 0 ELSE 100 * DigitsToInt(cleaned)

parse_currency(value_str) ==
    IF value_str = <<>> \/ value_str = <<"N","/","A">> THEN 0
    ELSE LET cleaned == SelectSeq(value_str, LAMBDA c : IsDigit(c) \/ c = ".")
         IN  IF cleaned = <<>> THEN 0
             ELSE IF FloatOf(cleaned) = <<>> THEN 0
             ELSE FloatOf(cleaned)[1]

\* ------------------------------------------------------------------- page

\* the lookup of an element that the page does not hold raises
NoElem == <<"<no element>">>

Artifact   == <<"A","r","t","i","f","a","c","t">>
Cape       == <<"C","a","p","e">>
Killphrase == <<"K","i","l","l","p","h","r","a","s","e">>
Projectile == <<"P","r","o","j","e","c","t","i","l","e">>
Mount      == <<"M","o","u","n","t">>

valid_category_names == <<Artifact, Cape, Killphrase, Projectile, Mount>>

ShowAll   == <<"S","h","o","w"," ","A","l","l">>
ShowOwned == <<"S","h","o","w"," ","O","w","n","e","d">>
Owned     == <<"O","w","n","e","d">>
showowned == <<"s","h","o","w"," ","o","w","n","e","d">>
OnlyOWNED == <<"O","n","l","y"," ","O","W","N","E","D">>
Unowned   == <<"U","n","o","w","n","e","d">>

\* A section of the profile page: the text of its h6 header, the texts of its
\* h3 elements, the labels of its filter control and its item elements, each
\* with the text under the primary and under the fallback selector.
SecArtifact ==
    [h6 |-> Artifact,
     h3 |-> << <<"1","/","1","0">> >>,
     options |-> <<ShowAll, Owned, ShowOwned>>,
     items |-> << [primary |-> Antler.name, fallback |-> NoElem] >>]

SecCape ==
    [h6 |-> Cape,
     h3 |-> << <<"0","/","5","0">> >>,
     options |-> <<ShowAll, ShowOwned>>,
     items |-> << [primary |-> CuteCowboy.name, fallback |-> NoElem] >>]

SecMount ==
    [h6 |-> Mount,
     h3 |-> << <<"O","w","n","e","d">>, <<"[","3","/","2","9","5","]">> >>,
     options |-> <<ShowAll, OnlyOWNED, Unowned>>,
     items |-> << [primary |-> NoElem, fallback |-> NoElem],
                  [primary |-> <<" ">>, fallback |-> NoElem],
                  [primary |-> NoElem, fallback |-> <<"Z","z","z","z","z","z">>],
                  [primary |-> <<" ","C","U","T","E"," ","C","O","W","B","O","Y">>,
                   fallback |-> NoElem] >>]

SecProjectile ==
    [h6 |-> Projectile,
     h3 |-> << <<"2","/","7">> >>,
     options |-> <<ShowAll>>,
     items |-> << [primary |-> Antler.name, fallback |-> NoElem] >>]

SecFriends ==
    [h6 |-> <<"F","r","i","e","n","d","s">>,
     h3 |-> << <<"3","/","5">> >>,
     options |-> <<ShowAll, ShowOwned>>,
     items |-> << [primary |-> Antler.name, fallback |-> NoElem] >>]

SecNoHeader ==
    [h6 |-> NoElem,
     h3 |-> << <<"1","/","1">> >>,
     options |-> <<ShowAll, ShowOwned>>,
     items |-> << [primary |-> Antler.name, fallback |-> NoElem] >>]

\* a main category whose counter text holds a '/' and does not parse
SecKillphrase ==
    [h6 |-> Killphrase,
     h3 |-> << <<"K","i","l","l","s">>, <<"O","w","n","e","d"," ","4","/","9">>,
               <<"4","/","9">> >>,
     options |-> <<ShowAll, ShowOwned>>,
     items |-> << [primary |-> Antler.name, fallback |-> NoElem] >>]

\* a main category without a counter text
SecNoCount ==
    [h6 |-> Killphrase,
     h3 |-> << <<" ">>, <<"O","w","n","e","d">> >>,
     options |-> <<ShowAll, ShowOwned>>,
     items |-> << [primary |-> Antler.name, fallback |-> NoElem] >>]

\* a second section that carries the header of the Artifact section, with a
\* counter and an item of its own
SecArtifactAgain ==
    [h6 |-> Artifact,
     h3 |-> << <<"2","/","1","0">> >>,
     options |-> <<ShowAll, ShowOwned>>,
     items |-> << [primary |-> CuteCowboy.name, fallback |-> NoElem] >>]

SectionKinds == {SecArtifact, SecCape, SecMount, SecProjectile, SecFriends, SecNoHeader}

\* the most sections a page of the model holds
MaxSections == 2

Pages == UNION {[1..n -> SectionKinds] : n \in 0..MaxSections}

\* a parse that looks for the counter anywhere in the text (re.search)
ParseCount_Search(count_text) ==
    LET starts == {i \in 1..Len(count_text) : IsDigit(count_text[i]) \/ count_text[i] = "["}
        from   == IF starts = {} THEN 1 ELSE CHOOSE i \in starts : \A j \in starts : i <= j
        s      == SubSeq(count_text, from, Len(count_text))
        t      == IF s # <<>> /\ s[1] = "[" THEN Tail(s) ELSE s
        n1     == DigitRun(t)
        u      == SubSeq(t, n1 + 2, Len(t))
        n2     == DigitRun(u)
    IN  IF n1 >= 1 /\ Len(t) >= n1 + 1 /\ t[n1 + 1] = "/" /\ n2 >= 1
        THEN <<DigitsToInt(SubSeq(t, 1, n1)), DigitsToInt(SubSeq(u, 1, n2))>>
        ELSE <<>>

\* re.match(r'\[?(\d+)/(\d+)\]?', count_text): <<owned, total>>, or <<>>
\* when the text does not match
ParseCount(count_text) ==
    LET t  == IF count_text # <<>> /\ count_text[1] = "[" THEN Tail(count_text) ELSE count_text
        n1 == DigitRun(t)
        u  == SubSeq(t, n1 + 2, Len(t))
        n2 == DigitRun(u)
    IN  IF n1 >= 1 /\ Len(t) >= n1 + 1 /\ t[n1 + 1] = "/" /\ n2 >= 1
        THEN <<DigitsToInt(SubSeq(t, 1, n1)), DigitsToInt(SubSeq(u, 1, n2))>>
        ELSE <<>>

\* the first h3 text that is not empty and holds a '/', or the empty text
CountText(h3) ==
    LET ok == {i \in 1..Len(h3) : Strip(h3[i]) # <<>> /\ "/" \in Range(Strip(h3[i]))}
    IN  IF ok = {} THEN <<>> ELSE Strip(h3[CHOOSE i \in ok : \A j \in ok : i <= j])

\* the loop that re-locates a category: the first section of `secs' whose
\* header text is category_name, 0 (None) when there is none
Relocate(dom, secs, category_name) ==
    LET ok == {i \in 1..Len(secs) :
                  dom[secs[i]].h6 # NoElem /\ Strip(dom[secs[i]].h6) = category_name}
    IN  IF ok = {} THEN 0 ELSE secs[CHOOSE i \in ok : \A j \in ok : i <= j]

\* the filter to the main categories: (section, name) of every section whose
\* header is one of valid_category_names, in page order
RECURSIVE FilterMain(_, _)
FilterMain(dom, secs) ==
    IF secs = <<>> THEN <<>>
    ELSE LET h == dom[Head(secs)].h6
         IN  IF h # NoElem /\ Strip(h) \in Range(valid_category_names)
             THEN <<[category |-> Head(secs), category_name |-> Strip(h)]>>
                      \o FilterMain(dom, Tail(secs))
             ELSE FilterMain(dom, Tail(secs))

\* a selection of the first label that contains "owned" in lower case
OwnedOption_FirstContaining(options) ==
    LET c == {i \in 1..Len(options) : Contains(Lower(Owned), Lower(options[i]))}
    IN  IF c # {} THEN options[CHOOSE i \in c : \A j \in c : i <= j]
        ELSE NoElem

\* the label the filter selection ends on: the first of the three spellings
\* that is a label of the control, else the first label that contains
\* "owned" in lower case, else NoElem
OwnedOption(options) ==
    LET exact == <<ShowOwned, Owned, showowned>>
        e     == {i \in 1..3 : exact[i] \in Range(options)}
        c     == {i \in 1..Len(options) : Contains(Lower(Owned), Lower(options[i]))}
    IN  IF e # {} THEN exact[CHOOSE i \in e : \A j \in e : i <= j]
        ELSE IF c # {} THEN options[CHOOSE i \in c : \A j \in c : i <= j]
        ELSE NoElem

\* the name read from an item element: the primary selector, then the
\* fallback selector; NoElem when both lookups raise
ItemName(item_element) ==
    IF item_element.primary # NoElem THEN Strip(item_element.primary)
    ELSE IF item_element.fallback # NoElem THEN Strip(item_element.fallback)
    ELSE NoElem

\* item_data.get(field, '0')
Field(item_data, field) ==
    IF field \in DOMAIN item_data THEN item_data[field] ELSE <<"0">>

\* a record whose usd amount is read from the 'coins' field
ValuedItem_CoinsAsUsd(item_name, category_name, item_data) ==
    [name     |-> item_name,
     category |-> category_name,
     usd      |-> parse_currency(Field(item_data, "coins")),
     coins    |-> parse_currency(Field(item_data, "coins")),
     shards   |-> parse_currency(Field(item_data, "shards"))]

\* the record appended to owned_items for a matched name
ValuedItem(item_name, category_name, item_data) ==
    [name     |-> item_name,
     category |-> category_name,
     usd      |-> parse_currency(Field(item_data, "usd")),
     coins    |-> parse_currency(Field(item_data, "coins")),
     shards   |-> parse_currency(Field(item_data, "shards"))]

\* ----------------------------------------------------------------- scrape

VARIABLES
    items_lookup,          \* the catalog index loaded at process start
    page,                  \* the sections of the profile page
    ign,                   \* the argument of scrape_inventory
    pc,                    \* the position of the scrape
    driver,                \* "None", "open" (a session), "quit" (quit was invoked on it)
    teardown,              \* "none", "ok", "raised": how driver.quit() ended
    browser,               \* "none", "running", "stopped": the browser process
                           \* that webdriver.Chrome launches
    probe,                 \* "none", "clear", "marker": what the probe has found
    last_query,            \* "none", "sections", "nothing", "raise": how the last
                           \* section query of the discovery ended
    attempt,               \* the loop variable of the two lookup retry loops
    all_categories,        \* the section handles of the last section query
    main_categories,       \* the (handle, name) pairs of the main categories
    ci,                    \* the index of category_tuple in main_categories
    category,              \* the section handle of the category, 0 for None
    owned_count,           \* the owned count parsed from the counter
    click_attempt,         \* the loop variable of safe_click
    click_for,             \* "expand" or "collapse": the caller of safe_click
    cosmetic_items,        \* the item elements of the category
    ii,                    \* the index of item_element in cosmetic_items
    owned_items, total_usd, total_coins, total_shards, categories_processed,
    result,                \* the record scrape_inventory returned, None before
    attempted,             \* the categories whose processing was started
    failed,                \* a step of some category has failed
    active_evaluations,    \* the in-flight set of the inventory command
    handlers,              \* the requests in flight, a bag of handler states
    last,                  \* how the last inventory command was received
    call,                  \* the arguments and the return values of the calls of
                           \* load_items_database, find_item_in_database and
                           \* parse_currency that SpecCalls follows
    behaviour,             \* how the operations on the page end: "any" (each in
                           \* any of its ways), "succeeds" (each succeeds),
                           \* "recorded" (any, and noted in `responses'),
                           \* "replayed" (as `responses' tells)
    responses,             \* the outcomes of the operations of a recorded scrape
                           \* that the scrape that replays them has yet to meet
    earlier,               \* the record the recorded scrape returned
    stale,                 \* the element handles held that were obtained before
                           \* the last action that changed the DOM
    misused,               \* a step has read a stale handle, or a section handle
                           \* of main_categories
    selected               \* the label selected in the filter control of the
                           \* category, NoElem before the selection

given    == <<items_lookup, page, ign, call, behaviour, earlier>>
inputs   == <<given, responses>>
session  == <<driver, teardown, browser>>
\* the locals of one iteration of the category loop
locals   == <<attempt, all_categories, category, owned_count, click_attempt,
              click_for, cosmetic_items, ii, stale, selected>>
totals   == <<owned_items, total_usd, total_coins, total_shards, categories_processed>>
history  == <<probe, last_query, attempted, failed, misused>>
requests == <<active_evaluations, handlers, last>>
vars     == <<inputs, pc, session, main_categories, ci, locals, totals, result,
              history, requests>>

\* the most operations of a recorded scrape that do not succeed
MaxFaults == 3

\* the operations noted in `noted' that did not succeed
Faults(noted) == Cardinality({i \in 1..Len(noted) : noted[i].got # noted[i].ok})

\* The ways in which an operation on the page may end in the current state:
\* `all' of them; `ok' alone when every operation succeeds and when a
\* recorded scrape has met MaxFaults operations that did not; the way the
\* recorded scrape met at this point when its operations are replayed.
Responses(all, ok) ==
    IF behaviour = "succeeds" THEN {ok}
    ELSE IF behaviour = "recorded"
    THEN IF Faults(responses) < MaxFaults THEN all ELSE {ok}
    ELSE IF behaviour = "replayed"
    THEN IF responses # <<>> /\ responses[1].at = pc THEN {responses[1].got} ELSE {}
    ELSE all

\* the operation, which succeeds as `ok', ended in the way `got'
Answered(got, ok) ==
    responses' = IF behaviour = "recorded"
                 THEN Append(responses, [at |-> pc, got |-> got, ok |-> ok])
                 ELSE IF behaviour = "replayed" THEN Tail(responses)
                 ELSE responses

\* the identifiers given to scrape_inventory in the scrapes of the model
ScrapeIgns == { <<"B","o","b">>, <<" ","a","l">> }

\* every section of the page, in page order
Sections(dom) == [i \in 1..Len(dom) |-> i]

category_name == main_categories[ci].category_name

\* the element handles that the steps of a category keep in a local
Handles == {"category", "dropdown_toggle", "cosmetic_items"}

\* a filter selection made on the section handle held since before the click
HandlesRead_HeldCategory(at) ==
    IF at \in {"count", "toggle", "select"} THEN {"category"}
    ELSE IF at = "click" THEN {"dropdown_toggle"}
    ELSE IF at = "items" THEN {"cosmetic_items"}
    ELSE {}

\* The handles obtained by an earlier step that the step at `at' reads: the
\* counter and the toggle are looked up in `category', safe_click works on
\* the toggle, the item loop on the item elements.  Locate, the filter
\* selection, Enumerate and Collapse query the section list and read the
\* section they find in it.
HandlesRead(at) ==
    IF at \in {"count", "toggle"} THEN {"category"}
    ELSE IF at = "click" THEN {"dropdown_toggle"}
    ELSE IF at = "items" THEN {"cosmetic_items"}
    ELSE {}

\* the step reads the handles HandlesRead(pc)
ReadsHandles ==
    misused' = (misused \/ HandlesRead(pc) \cap (stale \cup {"main_categories"}) # {})

\* The locals hold no value that a later iteration reads: each is assigned
\* again before its first use, so an iteration starts from these values.  For
\* the same reason a step gives a local its starting value once no later step
\* of the iteration reads what it holds (the loop variable after its loop, the
\* handle list after the match on the header text, the item elements after
\* the item loop).
FreshLocals ==
    /\ attempt' = 0
    /\ all_categories' = <<>>
    /\ category' = 0
    /\ owned_count' = 0
    /\ click_attempt' = 0
    /\ click_for' = "expand"
    /\ cosmetic_items' = <<>>
    /\ ii' = 0
    /\ stale' = {}
    /\ selected' = NoElem

\* the next iteration of the category loop
NextCategory ==
    /\ pc' = "locate"
    /\ ci' = ci + 1
    /\ FreshLocals
    /\ UNCHANGED result

\* the `continue' of a step that failed, and the handler of the category
\* (log the error, continue)
Continue ==
    /\ NextCategory
    /\ failed' = TRUE

\* a scrape whose top-level failure leaves it without a record
Fatal_Propagates(e) ==
    /\ pc' = "finally"
    /\ UNCHANGED result

\* the top-level except clause: the failure record
Fatal(e) ==
    /\ result' = [success |-> FALSE, error |-> e, ign |-> ign]
    /\ pc' = "finally"

\* no call is followed
NoCall == [items_file |-> NoItemsFile, item_name |-> <<>>, value_str |-> <<>>,
           item_data |-> None, amount |-> 0]

\* the state of a scrape that has not made a step
NotStarted ==
    /\ driver = "None"
    /\ teardown = "none"
    /\ browser = "none"
    /\ probe = "none"
    /\ last_query = "none"
    /\ attempt = 0
    /\ all_categories = <<>>
    /\ main_categories = <<>>
    /\ ci = 0
    /\ category = 0
    /\ owned_count = 0
    /\ click_attempt = 0
    /\ click_for = "expand"
    /\ cosmetic_items = <<>>
    /\ ii = 0
    /\ owned_items = <<>>
    /\ total_usd = 0
    /\ total_coins = 0
    /\ total_shards = 0
    /\ categories_processed = 0
    /\ result = None
    /\ attempted = 0
    /\ failed = FALSE
    /\ responses = <<>>
    /\ earlier = None
    /\ stale = {}
    /\ selected = NoElem
    /\ misused = FALSE

InitScrape ==
    /\ items_lookup \in {load_items_database(f) : f \in ItemsFiles}
    /\ page \in Pages
    /\ ign \in ScrapeIgns
    /\ call = NoCall
    /\ behaviour = "any"
    /\ pc = "call"
    /\ NotStarted

\* How setup_driver ends: "ready", the session is returned; "no browser",
\* Service or webdriver.Chrome raised and nothing was launched; "configure",
\* the browser was launched and set_page_load_timeout or implicitly_wait
\* raised.  The except clause of setup_driver logs and raises again.
setup_driver == {"ready", "no browser", "configure"}

\* driver = setup_driver()
SetupDriver ==
    /\ pc = "call"
    /\ \E outcome \in Responses(setup_driver, "ready") :
          /\ Answered(outcome, "ready")
          /\ IF outcome = "ready"
             THEN /\ driver' = "open"
                  /\ browser' = "running"
                  /\ pc' = "get"
                  /\ UNCHANGED result
             ELSE /\ Fatal("Failed to initialize Chrome driver")
                  /\ browser' = IF outcome = "configure" THEN "running" ELSE browser
                  /\ UNCHANGED driver
    /\ UNCHANGED <<given, teardown, main_categories, ci, locals, totals, history, requests>>

\* driver.get(url) and the wait for the body
Navigate ==
    /\ pc = "get"
    /\ \E loaded \in Responses(BOOLEAN, TRUE) :
          /\ Answered(loaded, TRUE)
          /\ IF loaded
             THEN pc' = "probe" /\ UNCHANGED result
             ELSE Fatal("navigation failed")
    /\ UNCHANGED <<given, session, main_categories, ci, locals, totals, history, requests>>

\* what follows the probe: the exception raised on a marker, like a failure
\* of the lookup, is caught by the except clause around the probe
AfterProbe(met) ==
    /\ pc' = "scroll"
    /\ UNCHANGED result

\* the probe for the 'not found' marker
ProbeNotFound ==
    /\ pc = "probe"
    /\ \E met \in Responses({"clear", "marker", "raise"}, "clear") :
          /\ Answered(met, "clear")
          /\ probe' = IF met = "marker" THEN "marker" ELSE "clear"
          /\ AfterProbe(met)
    /\ UNCHANGED <<given, session, main_categories, ci, locals, totals,
                   last_query, attempted, failed, misused, requests>>

\* the scroll to the cosmetics section; the discovery loop that follows it
\* starts with its first attempt
Scroll ==
    /\ pc = "scroll"
    /\ \E scrolled \in Responses(BOOLEAN, TRUE) :
          /\ Answered(scrolled, TRUE)
          /\ IF scrolled
             THEN pc' = "discover" /\ attempt' = 0 /\ UNCHANGED result
             ELSE Fatal("script failed") /\ UNCHANGED attempt
    /\ UNCHANGED <<given, session, main_categories, ci, all_categories, category,
                   owned_count, click_attempt, click_for, cosmetic_items, ii, stale, selected,
                   totals, history, requests>>

\* a discovery that asks for another attempt whenever one found nothing
DiscoverVerdict_NeverGivesUp(got, n) ==
    IF got = "sections" /\ page # <<>> THEN "found" ELSE "retry"

\* a discovery loop that is not followed by the check for an empty list
DiscoverVerdict_NoFinalCheck(got, n) ==
    IF got = "raise" THEN (IF n = 2 THEN "raise" ELSE "retry")
    ELSE IF got = "sections" /\ page # <<>> THEN "found"
    ELSE IF n = 2 THEN "found"
    ELSE "retry"

\* what one attempt of the section query leads to: "found" (break), "retry",
\* "raise" (the failure of the third attempt is raised again) or "none" (the
\* loop is over and no section was found)
DiscoverVerdict(got, n) ==
    IF got = "raise" THEN (IF n = 2 THEN "raise" ELSE "retry")
    ELSE IF got = "sections" /\ page # <<>> THEN "found"
    ELSE IF n = 2 THEN "none"
    ELSE "retry"

\* one attempt of the section query, with the check that follows the loop
\* when the attempt is the last one
Discover ==
    /\ pc = "discover"
    /\ attempt < 3
    /\ \E got \in Responses({"sections", "nothing", "raise"}, "sections") :
          /\ Answered(got, "sections")
          /\ LET verdict == DiscoverVerdict(got, attempt)
             IN  /\ last_query' = IF got = "raise" THEN "raise"
                                  ELSE IF got = "sections" /\ page # <<>> THEN "sections"
                                  ELSE "nothing"
                 /\ all_categories' = IF verdict = "found" THEN Sections(page) ELSE <<>>
                 /\ attempt' = IF verdict = "retry" THEN attempt + 1 ELSE attempt
                 /\ IF verdict = "raise" THEN Fatal("section query failed")
                    ELSE IF verdict = "none" THEN Fatal("No cosmetic categories found on profile")
                    ELSE IF verdict = "found" THEN pc' = "filter" /\ UNCHANGED result
                    ELSE UNCHANGED <<pc, result>>
    /\ UNCHANGED <<given, session, main_categories, ci, category, owned_count,
                   click_attempt, click_for, cosmetic_items, ii, stale, selected, totals, probe,
                   attempted, failed, misused, requests>>

\* a start of the category loop that goes on with the accumulators it finds
FilterCategories_KeepsTotals ==
    /\ pc = "filter"
    /\ main_categories' = FilterMain(page, all_categories)
    /\ pc' = "locate"
    /\ ci' = 1
    /\ FreshLocals
    /\ UNCHANGED <<inputs, session, totals, result, history, requests>>

\* a filter that raises the failure of the discovery when no section is a
\* main category
FilterCategories_RequiresMain ==
    /\ pc = "filter"
    /\ main_categories' = FilterMain(page, all_categories)
    /\ IF FilterMain(page, all_categories) = <<>>
       THEN /\ Fatal("No cosmetic categories found on profile")
            /\ UNCHANGED <<ci, totals>>
       ELSE /\ owned_items' = <<>>
            /\ total_usd' = 0
            /\ total_coins' = 0
            /\ total_shards' = 0
            /\ categories_processed' = 0
            /\ pc' = "locate"
            /\ ci' = 1
            /\ UNCHANGED result
    /\ FreshLocals
    /\ UNCHANGED <<inputs, session, history, requests>>

\* the filter to the main categories and the start of the category loop
FilterCategories ==
    /\ pc = "filter"
    /\ main_categories' = FilterMain(page, all_categories)
    /\ owned_items' = <<>>
    /\ total_usd' = 0
    /\ total_coins' = 0
    /\ total_shards' = 0
    /\ categories_processed' = 0
    /\ pc' = "locate"
    /\ ci' = 1
    /\ FreshLocals
    /\ UNCHANGED <<inputs, session, result, history, requests>>

\* Locate: the section query and the match on the header text
Locate ==
    /\ pc = "locate"
    /\ ci <= Len(main_categories)
    /\ attempted' = attempted + 1
    /\ \E got \in Responses({"sections", "nothing", "raise"}, "sections") :
          /\ Answered(got, "sections")
          /\ LET found == IF got = "sections" THEN Sections(page) ELSE <<>>
                 cat   == Relocate(page, found, category_name)
             IN  IF got = "raise" \/ cat = 0
                 THEN Continue
                 ELSE /\ category' = cat
                      /\ stale' = stale \ {"category"}
                      /\ UNCHANGED selected
                      /\ pc' = "count"
                      /\ UNCHANGED <<ci, result, failed, attempt, all_categories, owned_count,
                                     click_attempt, click_for, cosmetic_items, ii>>
    /\ ReadsHandles
    /\ UNCHANGED <<given, session, main_categories, totals, probe, last_query,
                   requests>>

\* a ReadCount without the test for zero owned
CountVerdict_NoZeroTest(h3) ==
    LET count_text == CountText(h3)
        match      == ParseCount(count_text)
    IN  IF count_text = <<>> THEN "skip"
        ELSE IF match = <<>> THEN "skip"
        ELSE "expand"

\* what ReadCount does with the counter texts of the section: "skip" (no
\* counter, or a counter that does not parse), "zero" or "expand"
CountVerdict(h3) ==
    LET count_text == CountText(h3)
        match      == ParseCount(count_text)
    IN  IF count_text = <<>> THEN "skip"
        ELSE IF match = <<>> THEN "skip"
        ELSE IF match[1] = 0 THEN "zero"
        ELSE "expand"

\* ReadCount: the counter text, its parse and the test for zero owned
ReadCount ==
    /\ pc = "count"
    /\ \E read \in Responses(BOOLEAN, TRUE) :
          /\ Answered(read, TRUE)
          /\ LET verdict == CountVerdict(page[category].h3)
             IN  IF ~read \/ verdict = "skip"
                 THEN Continue
                 ELSE IF verdict = "zero"
                 THEN NextCategory /\ UNCHANGED failed
                 ELSE /\ owned_count' = ParseCount(CountText(page[category].h3))[1]
                      /\ pc' = "toggle"
                      /\ UNCHANGED <<ci, result, failed, attempt, all_categories, category,
                                     click_attempt, click_for, cosmetic_items, ii, stale, selected>>
    /\ ReadsHandles
    /\ UNCHANGED <<given, session, main_categories, totals, probe, last_query,
                   attempted, requests>>

\* Expand: the lookup of the toggle of the section
FindToggle ==
    /\ pc = "toggle"
    /\ \E found \in Responses(BOOLEAN, TRUE) :
          /\ Answered(found, TRUE)
          /\ IF found
             THEN /\ pc' = "click"
                  /\ click_for' = "expand"
                  /\ click_attempt' = 0
                  /\ stale' = stale \ {"dropdown_toggle"}
                  /\ UNCHANGED selected
                  /\ UNCHANGED <<ci, result, failed, attempt, all_categories, category,
                                 owned_count, cosmetic_items, ii>>
             ELSE Continue
    /\ ReadsHandles
    /\ UNCHANGED <<given, session, main_categories, totals, probe, last_query,
                   attempted, requests>>

\* a safe_click whose failure reaches the top-level except clause
ClickRaised_Aborts ==
    /\ Fatal("click failed")
    /\ UNCHANGED <<ci, failed, locals>>

\* a safe_click that returns False after its third failure: the caller, which
\* does not read the return value, goes on as after a click
ClickRaised_ReturnsFalse ==
    IF click_for = "expand"
    THEN /\ pc' = "select"
         /\ UNCHANGED <<ci, result, failed, locals>>
    ELSE NextCategory /\ UNCHANGED failed

\* what follows a safe_click that raised: the handler of the category after
\* the expand click, the except clause of Collapse after the collapse click
\* (both go on with the next category)
ClickRaised == Continue

\* one attempt of safe_click on the toggle
SafeClick ==
    /\ pc = "click"
    /\ click_attempt < 3
    /\ \E clicked \in Responses({"ok", "stale", "error"}, "ok") :
          /\ Answered(clicked, "ok")
          /\ IF clicked = "ok"
             THEN IF click_for = "expand"
                  THEN /\ pc' = "select"
                       /\ stale' = Handles
                       /\ UNCHANGED selected
                       /\ UNCHANGED <<ci, result, failed, attempt, all_categories,
                                      category, owned_count, click_attempt, click_for,
                                      cosmetic_items, ii>>
                  ELSE NextCategory /\ UNCHANGED failed
             ELSE IF click_attempt = 2
             THEN ClickRaised
             ELSE /\ click_attempt' = click_attempt + 1
                  /\ UNCHANGED <<pc, ci, result, failed, attempt, all_categories, category,
                                 owned_count, click_for, cosmetic_items, ii, stale, selected>>
    /\ ReadsHandles
    /\ UNCHANGED <<given, session, main_categories, totals, probe, last_query,
                   attempted, requests>>

\* a filter selection whose failure goes on with the Collapse of the section
SelectOwnedFilter_CollapsesOnFailure ==
    /\ pc = "select"
    /\ \E got \in Responses({"sections", "nothing", "raise"}, "sections") :
          /\ Answered(got, "sections")
          /\ LET found == IF got = "sections" THEN Sections(page) ELSE <<>>
                 cat   == Relocate(page, found, category_name)
             IN  IF got = "raise" \/ cat = 0 \/ OwnedOption(page[cat].options) = NoElem
                 THEN /\ pc' = "collapse"
                      /\ failed' = TRUE
                      /\ UNCHANGED <<category, attempt, cosmetic_items, click_attempt,
                                     stale, selected>>
                      /\ UNCHANGED <<ci, result, all_categories, owned_count,
                                     click_for, ii>>
                 ELSE /\ category' = cat
                      /\ pc' = "enumerate"
                      /\ attempt' = 0
                      /\ cosmetic_items' = <<>>
                      /\ click_attempt' = 0
                      /\ stale' = Handles
                      /\ selected' = OwnedOption(page[cat].options)
                      /\ UNCHANGED <<ci, result, failed, all_categories, owned_count,
                                     click_for, ii>>
    /\ ReadsHandles
    /\ UNCHANGED <<given, session, main_categories, totals, probe, last_query,
                   attempted, requests>>

\* SelectOwnedFilter: re-locate the section, find its filter control and
\* select an owned-only option
SelectOwnedFilter ==
    /\ pc = "select"
    /\ \E got \in Responses({"sections", "nothing", "raise"}, "sections") :
          /\ Answered(got, "sections")
          /\ LET found == IF got = "sections" THEN Sections(page) ELSE <<>>
                 cat   == Relocate(page, found, category_name)
             IN  IF got = "raise" \/ cat = 0 \/ OwnedOption(page[cat].options) = NoElem
                 THEN Continue
                 ELSE /\ category' = cat
                      /\ pc' = "enumerate"
                      /\ attempt' = 0
                      /\ cosmetic_items' = <<>>
                      /\ click_attempt' = 0
                      /\ stale' = Handles
                      /\ selected' = OwnedOption(page[cat].options)
                      /\ UNCHANGED <<ci, result, failed, all_categories, owned_count,
                                     click_for, ii>>
    /\ ReadsHandles
    /\ UNCHANGED <<given, session, main_categories, totals, probe, last_query,
                   attempted, requests>>

\* Enumerate: one attempt of the item lookup; the loop ends on the first
\* attempt that returns an item element and after the third attempt
Enumerate ==
    /\ pc = "enumerate"
    /\ attempt < 3
    /\ \E got \in Responses({"items", "no_items", "no_sections", "raise_sections",
                             "raise_items"}, "items") :
          /\ Answered(got, "items")
          /\ LET found == IF got \in {"items", "no_items", "raise_items"}
                          THEN Sections(page) ELSE <<>>
                 cat   == Relocate(page, found, category_name)
                 elems == IF got = "items" /\ cat # 0 THEN page[cat].items ELSE <<>>
             IN  /\ failed' = (failed \/ got \in {"raise_sections", "raise_items"})
                 /\ IF elems # <<>> \/ attempt = 2
                    THEN /\ pc' = "items"
                         /\ cosmetic_items' = elems
                         /\ ii' = 1
                         /\ attempt' = 0
                         /\ category' = 0
                         /\ stale' = stale \ {"category", "cosmetic_items"}
                         /\ UNCHANGED selected
                    ELSE /\ attempt' = attempt + 1
                         /\ UNCHANGED <<pc, category, cosmetic_items, ii, stale, selected>>
    /\ ReadsHandles
    /\ UNCHANGED <<given, session, main_categories, ci, all_categories, owned_count,
                   click_attempt, click_for, totals, result, probe, last_query,
                   attempted, requests>>

\* a visit that stores a matched entry in the index under the name read
ProcessItem_CachesMatch ==
    /\ pc = "items"
    /\ ii <= Len(cosmetic_items)
    /\ \E read \in Responses(BOOLEAN, TRUE) :
          /\ Answered(read, TRUE)
          /\ LET item_name == IF read THEN ItemName(cosmetic_items[ii]) ELSE NoElem
                 item_data == find_item_in_database(item_name, items_lookup)
                 valued    == ValuedItem(item_name, category_name, item_data)
             IN  IF item_name # NoElem /\ item_name # <<>> /\ item_data # None
                 THEN /\ total_usd' = total_usd + valued.usd
                      /\ total_coins' = total_coins + valued.coins
                      /\ total_shards' = total_shards + valued.shards
                      /\ owned_items' = Append(owned_items, valued)
                      /\ items_lookup' = DictSet(items_lookup, item_name, item_data)
                 ELSE UNCHANGED <<items_lookup, owned_items, total_usd, total_coins,
                                  total_shards>>
    /\ ii' = ii + 1
    /\ ReadsHandles
    /\ UNCHANGED <<page, ign, call, behaviour, earlier, pc, session, main_categories, ci,
                   attempt, all_categories, category, owned_count, click_attempt,
                   click_for, cosmetic_items, stale, selected, categories_processed, result, probe,
                   last_query, attempted, failed, requests>>

\* a visit that ends the item loop at an element that gives no name
ProcessItem_StopsAtNameless ==
    /\ pc = "items"
    /\ ii <= Len(cosmetic_items)
    /\ \E read \in Responses(BOOLEAN, TRUE) :
          /\ Answered(read, TRUE)
          /\ LET item_name == IF read THEN ItemName(cosmetic_items[ii]) ELSE NoElem
                 item_data == find_item_in_database(item_name, items_lookup)
                 valued    == ValuedItem(item_name, category_name, item_data)
             IN  IF item_name # NoElem /\ item_name # <<>> /\ item_data # None
                 THEN /\ total_usd' = total_usd + valued.usd
                      /\ total_coins' = total_coins + valued.coins
                      /\ total_shards' = total_shards + valued.shards
                      /\ owned_items' = Append(owned_items, valued)
                 ELSE UNCHANGED <<owned_items, total_usd, total_coins, total_shards>>
    /\ ii' = IF \E read \in Responses(BOOLEAN, TRUE) :
                    read /\ ItemName(cosmetic_items[ii]) \notin {NoElem, <<>>}
             THEN ii + 1
             ELSE Len(cosmetic_items) + 1
    /\ ReadsHandles
    /\ UNCHANGED <<given, pc, session, main_categories, ci, attempt, all_categories,
                   category, owned_count, click_attempt, click_for, cosmetic_items, stale, selected,
                   categories_processed, result, probe, last_query, attempted, failed,
                   requests>>

\* the visit of one item element: read its name, look it up, value it
ProcessItem ==
    /\ pc = "items"
    /\ ii <= Len(cosmetic_items)
    /\ \E read \in Responses(BOOLEAN, TRUE) :
          /\ Answered(read, TRUE)
          /\ LET item_name == IF read THEN ItemName(cosmetic_items[ii]) ELSE NoElem
                 item_data == find_item_in_database(item_name, items_lookup)
                 valued    == ValuedItem(item_name, category_name, item_data)
             IN  IF item_name # NoElem /\ item_name # <<>> /\ item_data # None
                 THEN /\ total_usd' = total_usd + valued.usd
                      /\ total_coins' = total_coins + valued.coins
                      /\ total_shards' = total_shards + valued.shards
                      /\ owned_items' = Append(owned_items, valued)
                 ELSE UNCHANGED <<owned_items, total_usd, total_coins, total_shards>>
    /\ ii' = ii + 1
    /\ ReadsHandles
    /\ UNCHANGED <<given, pc, session, main_categories, ci, attempt, all_categories,
                   category, owned_count, click_attempt, click_for, cosmetic_items, stale, selected,
                   categories_processed, result, probe, last_query, attempted, failed,
                   requests>>

\* the end of the item loop: the category counts as processed
EndItems ==
    /\ pc = "items"
    /\ ii > Len(cosmetic_items)
    /\ categories_processed' = categories_processed + 1
    /\ pc' = "collapse"
    /\ cosmetic_items' = <<>>
    /\ ii' = 0
    /\ UNCHANGED <<inputs, session, main_categories, ci, attempt, all_categories, category,
                   owned_count, click_attempt, click_for, stale, selected, owned_items, total_usd,
                   total_coins, total_shards, result, history, requests>>

\* a Collapse whose failure reaches the top-level except clause
Collapse_FailureAborts ==
    /\ pc = "collapse"
    /\ \E got \in Responses({"toggle", "no_toggle", "no_sections", "raise"}, "toggle") :
          /\ Answered(got, "toggle")
          /\ LET found == IF got \in {"toggle", "no_toggle"} THEN Sections(page) ELSE <<>>
                 cat   == Relocate(page, found, category_name)
             IN  IF got = "toggle" /\ cat # 0
                 THEN /\ category' = cat
                      /\ pc' = "click"
                      /\ click_for' = "collapse"
                      /\ click_attempt' = 0
                      /\ stale' = stale \ {"category", "dropdown_toggle"}
                      /\ UNCHANGED selected
                      /\ UNCHANGED <<ci, result, failed, attempt, all_categories, owned_count,
                                     cosmetic_items, ii>>
                 ELSE /\ Fatal("collapse failed")
                      /\ UNCHANGED <<ci, failed, locals>>
    /\ ReadsHandles
    /\ UNCHANGED <<given, session, main_categories, totals, probe, last_query,
                   attempted, requests>>

\* Collapse: re-locate the section and find its toggle; every failure is
\* passed over
Collapse ==
    /\ pc = "collapse"
    /\ \E got \in Responses({"toggle", "no_toggle", "no_sections", "raise"}, "toggle") :
          /\ Answered(got, "toggle")
          /\ LET found == IF got \in {"toggle", "no_toggle"} THEN Sections(page) ELSE <<>>
                 cat   == Relocate(page, found, category_name)
             IN  IF got = "toggle" /\ cat # 0
                 THEN /\ category' = cat
                      /\ pc' = "click"
                      /\ click_for' = "collapse"
                      /\ click_attempt' = 0
                      /\ stale' = stale \ {"category", "dropdown_toggle"}
                      /\ UNCHANGED selected
                      /\ UNCHANGED <<ci, result, failed, attempt, all_categories, owned_count,
                                     cosmetic_items, ii>>
                 ELSE Continue
    /\ ReadsHandles
    /\ UNCHANGED <<given, session, main_categories, totals, probe, last_query,
                   attempted, requests>>

\* a success record with two totals exchanged
SuccessResult_Swapped ==
    [success |-> TRUE,
     ign |-> ign,
     items |-> owned_items,
     total_usd |-> total_usd,
     total_coins |-> total_shards,
     total_shards |-> total_coins,
     item_count |-> Len(owned_items),
     categories_processed |-> categories_processed]

\* the record returned after the category loop
SuccessResult ==
    [success |-> TRUE,
     ign |-> ign,
     items |-> owned_items,
     total_usd |-> total_usd,
     total_coins |-> total_coins,
     total_shards |-> total_shards,
     item_count |-> Len(owned_items),
     categories_processed |-> categories_processed]

ReturnSuccess ==
    /\ pc = "locate"
    /\ ci > Len(main_categories)
    /\ result' = SuccessResult
    /\ pc' = "finally"
    /\ UNCHANGED <<inputs, session, main_categories, ci, locals, totals, history, requests>>

\* quit at the end of the success path only
SessionToQuit_OnSuccessOnly == driver = "open" /\ result.success

\* the session the finally clause invokes quit on: the one held in `driver'
SessionToQuit == driver = "open"

\* a failure of quit that takes the place of the record
QuitRaised_Masks == result' = [success |-> FALSE, error |-> "quit failed", ign |-> ign]

\* the except clause around driver.quit(): pass
QuitRaised == UNCHANGED result

\* the finally clause: quit the session when there is one, pass over a
\* failure of quit, and return the record
Finally ==
    /\ pc = "finally"
    /\ IF SessionToQuit
       THEN /\ driver' = "quit"
            /\ \E raised \in Responses(BOOLEAN, FALSE) :
                  /\ Answered(raised, FALSE)
                  /\ teardown' = IF raised THEN "raised" ELSE "ok"
                  /\ browser' \in IF raised THEN {"running", "stopped"} ELSE {"stopped"}
                  /\ IF raised THEN QuitRaised ELSE UNCHANGED result
       ELSE UNCHANGED <<driver, teardown, browser, result, responses>>
    /\ pc' = "returned"
    /\ UNCHANGED <<given, main_categories, ci, locals, totals, history, requests>>

NextScrape ==
    \/ SetupDriver
    \/ Navigate
    \/ ProbeNotFound
    \/ Scroll
    \/ Discover
    \/ FilterCategories
    \/ Locate
    \/ ReadCount
    \/ FindToggle
    \/ SafeClick
    \/ SelectOwnedFilter
    \/ Enumerate
    \/ ProcessItem
    \/ EndItems
    \/ Collapse
    \/ ReturnSuccess
    \/ Finally

\* --------------------------------------------------------------- requests

\* max_workers of the executor
max_workers == 3

\* the most requests of get_inventory in flight at once
MaxHttp == 1

\* the player names typed into the requests of the model
Bob     == <<"B","o","b">>
bobPad  == <<" ","b","o","b"," ">>
Al      == <<"A","l">>
Cy      == <<"C","y">>
Di      == <<"D","i">>
TooLong == [i \in 1..33 |-> "x"]
Igns    == {Bob, bobPad, Al, Cy, Di, <<>>, <<" ">>, TooLong}
\* the names in the path of the requests of get_inventory (the route does
\* not match an empty name)
HttpIgns == {Al, <<" ">>, TooLong}

\* A request in flight: its entry point, the name it carries (trimmed by the
\* inventory command, as received by get_inventory) and its position.
Handler(entry, name, at) == [entry |-> entry, ign |-> name, pc |-> at]

InFlight == BagToSet(handlers)

RECURSIVE Copies(_)
Copies(hs) ==
    IF hs = {} THEN 0
    ELSE LET h == CHOOSE x \in hs : TRUE
         IN  CopiesIn(h, handlers) + Copies(hs \ {h})

\* the scrapes that run: every one holds a browser session
Running == {h \in InFlight : h.pc = "running"}
\* the scrapes that run on a worker of the executor
OnWorker == {h \in Running : h.entry = "command"}

Move(h, at) == (handlers (-) SetToBag({h})) (+) SetToBag({Handler(h.entry, h.ign, at)})

\* a command that ends without the discard
Release_KeepsEntry(h) ==
    /\ handlers' = handlers (-) SetToBag({h})
    /\ UNCHANGED active_evaluations

\* the finally clause of the inventory command
Release(h) ==
    /\ active_evaluations' = active_evaluations \ {Lower(h.ign)}
    /\ handlers' = handlers (-) SetToBag({h})

\* the test `ign.lower() in active_evaluations'
IsDuplicate(name) == Lower(name) \in active_evaluations

\* a command whose rejection of a duplicate runs the discard of the finally
\* clause
InventoryCommand_DuplicateDiscards ==
    /\ \E typed \in Igns :
          LET name == Strip(typed)
          IN  IF name = <<>> \/ Len(name) > 32
              THEN /\ last' = "invalid"
                   /\ UNCHANGED <<active_evaluations, handlers>>
              ELSE IF IsDuplicate(name)
              THEN /\ last' = "duplicate"
                   /\ active_evaluations' = active_evaluations \ {Lower(name)}
                   /\ UNCHANGED handlers
              ELSE /\ last' = "accepted"
                   /\ active_evaluations' = active_evaluations \cup {Lower(name)}
                   /\ handlers' = handlers (+) SetToBag({Handler("command", name, "sending")})
    /\ UNCHANGED <<inputs, pc, session, main_categories, ci, locals, totals, result, history>>

\* the inventory command up to its first response: the name is trimmed and
\* validated, a duplicate is rejected, the identifier is added to the set
InventoryCommand ==
    /\ \E typed \in Igns :
          LET name == Strip(typed)
          IN  IF name = <<>> \/ Len(name) > 32
              THEN /\ last' = "invalid"
                   /\ UNCHANGED <<active_evaluations, handlers>>
              ELSE IF IsDuplicate(name)
              THEN /\ last' = "duplicate"
                   /\ UNCHANGED <<active_evaluations, handlers>>
              ELSE /\ last' = "accepted"
                   /\ active_evaluations' = active_evaluations \cup {Lower(name)}
                   /\ handlers' = handlers (+) SetToBag({Handler("command", name, "sending")})
    /\ UNCHANGED <<inputs, pc, session, main_categories, ci, locals, totals, result, history>>

\* the loading message is sent and the scrape is handed to the executor; a
\* failure of the send ends the command
SendLoading ==
    /\ \E h \in InFlight :
          /\ h.entry = "command"
          /\ h.pc = "sending"
          /\ \E sent \in BOOLEAN :
                IF sent
                THEN /\ handlers' = Move(h, "queued")
                     /\ UNCHANGED active_evaluations
                ELSE Release(h)
    /\ UNCHANGED <<inputs, pc, session, main_categories, ci, locals, totals, result,
                   history, last>>

\* a worker of the executor takes a queued scrape
WorkerStart ==
    /\ Copies(OnWorker) < max_workers
    /\ \E h \in InFlight :
          /\ h.pc = "queued"
          /\ handlers' = Move(h, "running")
    /\ UNCHANGED <<inputs, pc, session, main_categories, ci, locals, totals, result,
                   history, active_evaluations, last>>

\* scrape_inventory returns its record to the command: the failure embed or
\* the result embed is the next response
ScrapeReturn ==
    /\ \E h \in OnWorker : \E success \in BOOLEAN :
          handlers' = Move(h, IF success THEN "reply_result" ELSE "reply_error")
    /\ UNCHANGED <<inputs, pc, session, main_categories, ci, locals, totals, result,
                   history, active_evaluations, last>>

\* the response is edited (the failure embed or the result embed), or the
\* edit raises; the finally clause ends the command either way
Reply ==
    /\ \E h \in InFlight :
          /\ h.pc \in {"reply_result", "reply_error"}
          /\ Release(h)
    /\ UNCHANGED <<inputs, pc, session, main_categories, ci, locals, totals, result,
                   history, last>>

\* get_inventory: scrape_inventory is called with the name as received
get_inventory ==
    /\ Copies({h \in InFlight : h.entry = "http"}) < MaxHttp
    /\ \E name \in HttpIgns :
          handlers' = handlers (+) SetToBag({Handler("http", name, "running")})
    /\ UNCHANGED <<inputs, pc, session, main_categories, ci, locals, totals, result,
                   history, active_evaluations, last>>

\* scrape_inventory returns its record to get_inventory
HttpReturn ==
    /\ \E h \in Running :
          /\ h.entry = "http"
          /\ handlers' = handlers (-) SetToBag({h})
    /\ UNCHANGED <<inputs, pc, session, main_categories, ci, locals, totals, result,
                   history, active_evaluations, last>>

NextRequests ==
    \/ InventoryCommand
    \/ SendLoading
    \/ WorkerStart
    \/ ScrapeReturn
    \/ Reply
    \/ get_inventory
    \/ HttpReturn

\* no request is in flight
NoRequests ==
    /\ active_evaluations = {}
    /\ handlers = EmptyBag
    /\ last = "none"

\* the scrape of Spec is not followed while the requests of SpecRequests run
ScrapeIdle ==
    /\ items_lookup = load_items_database(NoItemsFile)
    /\ page = <<>>
    /\ ign = <<>>
    /\ call = NoCall
    /\ behaviour = "any"
    /\ pc = "idle"
    /\ NotStarted

\* ---------------------------------------------------------- specifications

\* one call of scrape_inventory
Init == InitScrape /\ NoRequests

Next == NextScrape

Spec == Init /\ [][Next]_vars

\* the requests of the two entry points
InitRequests == ScrapeIdle /\ NoRequests

SpecRequests == InitRequests /\ [][NextRequests]_vars

\* One inventory command from the executor's queue to its finally clause,
\* with every step of its scrape, beside the commands that hold the workers.

\* the command whose scrape is followed
Tracked(at) == Handler("command", ign, at)

\* the commands that hold the workers when the followed command is queued
Blockers == {{}, {Handler("command", n, "running") : n \in {Al, Cy, Di}}}

\* the worker that took the followed command calls scrape_inventory(ign)
WorkerCalls ==
    /\ pc = "idle"
    /\ result = None
    /\ Tracked("running") \in InFlight
    /\ pc' = "call"
    /\ UNCHANGED <<inputs, session, main_categories, ci, locals, totals, result,
                   history, requests>>

\* the record of the followed scrape reaches its command: `result = await
\* loop.run_in_executor(...)' and the test of result['success']
WorkerReturns ==
    /\ pc = "returned"
    /\ Tracked("running") \in InFlight
    /\ handlers' = Move(Tracked("running"),
                        IF result.success THEN "reply_result" ELSE "reply_error")
    /\ pc' = "idle"
    /\ UNCHANGED <<inputs, session, main_categories, ci, locals, totals, result,
                   history, active_evaluations, last>>

\* the scrape of another command returns
OtherReturns ==
    /\ ScrapeReturn
    /\ CopiesIn(Tracked("running"), handlers') = CopiesIn(Tracked("running"), handlers)

NextPool ==
    \/ WorkerStart
    \/ WorkerCalls
    \/ NextScrape
    \/ WorkerReturns
    \/ OtherReturns
    \/ Reply

\* The pages of the followed scrape are made of a section with items, a
\* section that reports 0 owned and a section that is no main category.  The
\* steps of the other commands do not depend on the steps of the followed
\* scrape: with the workers held, the empty page and a page of one section
\* are followed.
PoolPages(others) ==
    IF others = {} THEN {p \in Pages : Range(p) \subseteq {SecMount, SecCape, SecFriends}}
    ELSE {<<>>, <<SecArtifact>>}

InitPool ==
    /\ items_lookup = load_items_database(NoItemsFile)
    /\ ign = Bob
    /\ call = NoCall
    /\ behaviour = "any"
    /\ pc = "idle"
    /\ NotStarted
    /\ \E others \in Blockers :
          /\ page \in PoolPages(others)
          /\ handlers = SetToBag(others \cup {Tracked("queued")})
          /\ active_evaluations = {Lower(h.ign) : h \in others \cup {Tracked("queued")}}
    /\ last = "accepted"

\* Every browser operation returns or raises, the executor hands a queued
\* scrape to a free worker, and the event loop resumes a command whose await
\* has completed.
SpecPool ==
    /\ InitPool
    /\ [][NextPool]_vars
    /\ WF_vars(WorkerStart)
    /\ WF_vars(WorkerCalls)
    /\ WF_vars(NextScrape)
    /\ WF_vars(WorkerReturns)
    /\ WF_vars(OtherReturns)
    /\ WF_vars(Reply)

\* ------------------------------------------------------------------ calls

\* One call of load_items_database, then one of find_item_in_database on the
\* index it returned, then one of parse_currency, on arguments drawn from the
\* sets below.

\* a catalog entry of the given name
Entry(name) ==
    [name   |-> name,
     usd    |-> <<"$","2",".","5","0">>,
     coins  |-> <<"1",",","0","0","0"," ","C","o","i","n","s">>,
     shards |-> <<"7","0","0"," ","S","h","a","r","d","s">>]

GoldenCrown  == Entry(<<"G","o","l","d","e","n"," ","C","r","o","w","n">>)
GoldenCrowns == Entry(<<"G","o","l","d","e","n"," ","C","r","o","w","n","s">>)
DragonsEye   == Entry(<<"D","r","a","g","o","n","'","s"," ","E","y","e">>)
Bolt         == Entry(<<"B","o","l","t">>)
Arrow        == Entry(<<"A","r","r","o","w">>)
\* an entry of another price whose name differs from that of DragonsEye in
\* case, punctuation and white space around it
DragonsEyePlain ==
    [name   |-> <<"D","R","A","G","O","N","S"," ","E","Y","E"," ">>,
     usd    |-> <<"$","9",".","0","0">>,
     coins  |-> <<"1",",","0","0","0"," ","C","o","i","n","s">>,
     shards |-> <<"7","0","0"," ","S","h","a","r","d","s">>]
\* an entry without the 'name' key
Nameless     == Entry(NoKey)

\* the catalog sources of the calls: those of ItemsFiles and readable files
\* with two names of which one contains the other (in both orders), a name
\* with punctuation, names of 4 and 5 characters, an entry without a name
CallFiles ==
    ItemsFiles \cup
    { ItemsFile(TRUE, TRUE, "ok", <<GoldenCrown, GoldenCrowns>>),
      ItemsFile(TRUE, TRUE, "ok", <<GoldenCrowns, GoldenCrown>>),
      ItemsFile(TRUE, TRUE, "ok", <<DragonsEye, CuteCowboy>>),
      ItemsFile(TRUE, TRUE, "ok", <<Bolt, Nameless, Arrow>>),
      ItemsFile(TRUE, TRUE, "ok", <<DragonsEye, DragonsEyePlain>>),
      ItemsFile(TRUE, TRUE, "ok", <<DragonsEyePlain, DragonsEye, Bolt>>) }

UpperChar(c) ==
    IF c \in Range(LowerChars)
    THEN UpperChars[CHOOSE i \in 1..26 : LowerChars[i] = c]
    ELSE c

\* str.upper()
Upper(s) == [i \in 1..Len(s) |-> UpperChar(s[i])]

QueryNames ==
    { <<"C","u","t","e"," ","C","o","w","b","o","y">>,
      <<"c","u","t","e"," "," ","c","o","w","b","o","y">>,
      <<"C","u","t","e"," ","C","o","w","b","o","y","!">>,
      <<"A","n","t","l","e","r">>,
      <<"A","n","t","l","e","r"," ","C","a","p">>,
      <<"A","n","t","l","e","r","s">>,
      <<"G","o","l","d","e","n"," ","C","r","o","w">>,
      <<"G","o","l","d","e","n"," ","C","r","o","w","n">>,
      <<"G","o","l","d","e","n"," ","C","r","o","w","n","s">>,
      <<"D","r","a","g","o","n","s"," ","E","y","e">>,
      <<"D","r","a","g","o","n","-","s"," ","E","y","e">>,
      <<"A","r","r","o">>,
      <<"B","o","l","t","s">>,
      <<"B","o","l","t">>,
      <<"Z","z","z","z","z","z">>,
      <<>> }

\* the names looked up: each of QueryNames as written, in lower case and in
\* upper case, bare and with whitespace before it and around it
Queries ==
    LET cased == QueryNames \cup {Lower(n) : n \in QueryNames} \cup {Upper(n) : n \in QueryNames}
    IN  cased \cup {<<" ">> \o n : n \in cased} \cup {<<"\t">> \o n \o <<" ">> : n \in cased}

Prices ==
    { <<"$","5","0",".","0","0">>,
      <<"3",",","0","0","0",",","0","0","0"," ","C","o","i","n","s">>,
      <<"2","5","0",",","0","0","0"," ","S","h","a","r","d","s">>,
      <<>>,
      <<"N","/","A">>,
      <<"F","r","e","e">>,
      <<".">>,
      <<"1",".","2",".","3">>,
      <<"$",".","5">>,
      <<"5",".">>,
      <<"-","7">>,
      <<"0">>,
      <<"$","1",",","2","3","4",".","5","6">>,
      <<"1","e","3">> }

InitCalls ==
    /\ call \in [items_file : CallFiles, item_name : Queries, value_str : Prices,
                  item_data : {None}, amount : {0}]
    /\ items_lookup = <<>>
    /\ page = <<>>
    /\ ign = <<>>
    /\ behaviour = "any"
    /\ pc = "load"
    /\ NotStarted
    /\ NoRequests

\* items_lookup = load_items_database()
LoadItems ==
    /\ pc = "load"
    /\ items_lookup' = load_items_database(call.items_file)
    /\ pc' = "find"
    /\ UNCHANGED <<page, ign, call, behaviour, responses, earlier, session,
                   main_categories, ci, locals, totals, result, history, requests>>

\* item_data = find_item_in_database(item_name, items_lookup)
FindItem ==
    /\ pc = "find"
    /\ call' = [call EXCEPT !.item_data = find_item_in_database(call.item_name, items_lookup)]
    /\ pc' = "parse"
    /\ UNCHANGED <<items_lookup, page, ign, behaviour, responses, earlier, session,
                   main_categories, ci, locals, totals, result, history, requests>>

\* parse_currency(value_str)
ParseCurrency ==
    /\ pc = "parse"
    /\ call' = [call EXCEPT !.amount = parse_currency(call.value_str)]
    /\ pc' = "called"
    /\ UNCHANGED <<items_lookup, page, ign, behaviour, responses, earlier, session,
                   main_categories, ci, locals, totals, result, history, requests>>

NextCalls ==
    \/ LoadItems
    \/ FindItem
    \/ ParseCurrency

SpecCalls == InitCalls /\ [][NextCalls]_vars

\* ------------------------------------------------------------ two scrapes

\* the sections of the pages of SpecRuns: those of Pages, the two sections
\* whose counter gives no count and the second Artifact section
RunKinds == SectionKinds \cup {SecKillphrase, SecNoCount, SecArtifactAgain}

\* the pages of a scrape whose operations all succeed
SunnyPages == UNION {[1..n -> RunKinds] : n \in 0..MaxSections}

\* the pages of a recorded scrape: at most one section
RunPages == {p \in SunnyPages : Len(p) <= 1}

\* A scrape whose operations all succeed, on any page; or a scrape whose
\* operations end in any way, on a page of RunPages and for one identifier,
\* followed by a second scrape that meets the same outcomes.
InitRuns ==
    /\ items_lookup \in {load_items_database(f) : f \in ItemsFiles}
    /\ behaviour \in {"succeeds", "recorded"}
    /\ page \in IF behaviour = "succeeds" THEN SunnyPages ELSE RunPages
    /\ ign \in IF behaviour = "succeeds" THEN ScrapeIgns ELSE {<<"B","o","b">>}
    /\ call = NoCall
    /\ pc = "call"
    /\ NotStarted
    /\ NoRequests

\* scrape_inventory is called again once the recorded scrape has returned:
\* `driver = None', and whatever else the first call left is still there;
\* what is observed of a scrape is observed of the second one from here on
Recall ==
    /\ pc = "returned"
    /\ behaviour = "recorded"
    /\ behaviour' = "replayed"
    /\ earlier' = result
    /\ driver' = "None"
    /\ pc' = "call"
    /\ probe' = "none"
    /\ last_query' = "none"
    /\ attempted' = 0
    /\ failed' = FALSE
    /\ UNCHANGED <<items_lookup, page, ign, call, responses, teardown, browser,
                   main_categories, ci, locals, totals, result, misused, requests>>

NextRuns ==
    \/ NextScrape
    \/ Recall

SpecRuns == InitRuns /\ [][NextRuns]_vars

\* ------------------------------------------------------------------ claims

FailureShape(r) ==
    /\ DOMAIN r = {"success", "error", "ign"}
    /\ r.success = FALSE

SuccessShape(r) ==
    /\ DOMAIN r = {"success", "ign", "items", "total_usd", "total_coins", "total_shards",
                   "item_count", "categories_processed"}
    /\ r.success = TRUE

\* C1: when scrape_inventory has returned, a session that setup_driver handed
\* to it has had quit invoked on it, whichever exit path was taken; no scrape
\* returns with its session still open.
C1_QuitOnEveryExit ==
    pc = "returned" => driver # "open"

\* a scrape that obtained a session, failed at the top level and returned
C1_Witness ==
    /\ pc = "returned"
    /\ driver = "quit"
    /\ FailureShape(result)

\* C2: every call of scrape_inventory ends with a record of one of the two
\* shapes, carrying the identifier it was given; a launch failure, a
\* navigation failure and a discovery failure give the failure record, and a
\* scrape that reaches the end of the category loop gives the success record.
C2_AlwaysARecord ==
    pc = "returned" =>
        /\ FailureShape(result) \/ SuccessShape(result)
        /\ result.ign = ign
        /\ driver = "None" => FailureShape(result)
        /\ last_query \in {"none", "nothing", "raise"} => FailureShape(result)
        /\ last_query = "sections" => SuccessShape(result)

\* a scrape that returned the failure record of a launch failure
C2_Witness ==
    /\ pc = "returned"
    /\ driver = "None"
    /\ FailureShape(result)
    /\ result.ign = ign

\* the identifier a request is about: its name trimmed and lower-cased
Key(h) == Lower(Strip(h.ign))

Commands == {h \in InFlight : h.entry = "command"}

\* C3: the in-flight set holds exactly the lower-cased identifiers of the
\* inventory commands that passed validation and the duplicate check and
\* have not finished: an identifier enters the set when its command starts
\* and has left it once the command has finished, whichever way it finished.
C3_InFlightSetIsExact ==
    /\ active_evaluations = {Lower(h.ign) : h \in Commands}
    /\ \A h \in Commands : h.ign = Strip(h.ign) /\ h.ign # <<>> /\ Len(h.ign) <= 32

\* a command was accepted, and every command has finished
C3_Witness ==
    /\ last = "accepted"
    /\ handlers = EmptyBag
    /\ active_evaluations = {}

\* C4: two scrapes of the same identifier never run at the same time,
\* whichever entry points started them.
C4_OneScrapePerIdentifier ==
    \A h1, h2 \in Running :
        Key(h1) = Key(h2) => h1 = h2 /\ CopiesIn(h1, handlers) = 1

\* C5: at no time do more than max_workers scrapes run, whichever entry
\* points started them.
C5_AtMostThreeScrapes ==
    Copies(Running) <= max_workers

\* the positions of the category loop
LoopPcs == {"locate", "count", "toggle", "click", "select", "enumerate", "items", "collapse"}

IsPrefix(a, b) == Len(a) <= Len(b) /\ SubSeq(b, 1, Len(a)) = a

\* a step taken inside the category loop (used by C6)
C6_LoopStep ==
    pc \in LoopPcs =>
        /\ pc' \in LoopPcs \cup {"finally"}
        /\ pc' = "finally" =>
              /\ SuccessShape(result')
              /\ result'.items = owned_items
              /\ attempted' = Len(main_categories)
        /\ ci' # ci => ci' = ci + 1 /\ pc' = "locate" /\ totals' = totals
        /\ failed' # failed => ci' = ci + 1 \/ pc = "enumerate"
        /\ IsPrefix(owned_items, owned_items')
        /\ categories_processed' >= categories_processed

\* C6: no step of the category loop aborts the scrape: the loop is left only
\* by the success return, after every main category has been started; a step
\* that goes on to the next category (every failed step does) leaves the
\* items, the totals and categories_processed as they were, and no step
\* removes or changes an item accumulated before.
C6_CategoryFailuresIsolated == [][C6_LoopStep]_vars

\* Mount, listed first, failed; Artifact, listed after it, was processed
C6_Witness ==
    /\ pc = "returned"
    /\ page = <<SecMount, SecArtifact>>
    /\ failed
    /\ attempted = 2
    /\ SuccessShape(result)
    /\ result.categories_processed = 1
    /\ result.item_count = 1
    /\ result.items[1].category = Artifact

\* C7: a scrape whose probe found the 'not found' marker returns the failure
\* record "Player profile not found" and processes no category.
C7_NotFoundAborts ==
    (pc = "returned" /\ probe = "marker") =>
        /\ FailureShape(result)
        /\ result.error = "Player profile not found"
        /\ attempted = 0

\* C8: the section query is made at most 3 times (attempt is 0, 1 or 2);
\* once an attempt has found a section no further attempt is made and the scrape proceeds to a success
\* record; when the third attempt returns no section the scrape returns the
\* failure record "No cosmetic categories found on profile", and when it
\* raises, a failure record; in both cases quit was invoked on the session.
C8_DiscoveryRetries ==
    /\ pc = "discover" => attempt <= 2 /\ last_query # "sections"
    /\ last_query = "sections" =>
          /\ all_categories # <<>> \/ pc \in LoopPcs \cup {"finally", "returned"}
          /\ pc = "returned" => SuccessShape(result)
    /\ (pc = "returned" /\ last_query = "nothing") =>
          /\ attempt = 2
          /\ FailureShape(result)
          /\ result.error = "No cosmetic categories found on profile"
          /\ driver = "quit"
    /\ (pc = "returned" /\ last_query = "raise") =>
          /\ attempt = 2
          /\ FailureShape(result)
          /\ driver = "quit"

\* a page with sections on which three queries found nothing
C8_Witness ==
    /\ pc = "returned"
    /\ page # <<>>
    /\ attempt = 2
    /\ last_query = "nothing"
    /\ result.error = "No cosmetic categories found on profile"
    /\ driver = "quit"

RECURSIVE SumOf(_, _)
SumOf(items, field) ==
    IF items = <<>> THEN 0 ELSE Head(items)[field] + SumOf(Tail(items), field)

TotalsMatch(items, usd, coins, shards) ==
    /\ usd = SumOf(items, "usd")
    /\ coins = SumOf(items, "coins")
    /\ shards = SumOf(items, "shards")

\* the totals and the record agree with the items (used by C9)
C9_Sums ==
    /\ TotalsMatch(owned_items, total_usd, total_coins, total_shards)
    /\ SuccessShape(result) =>
          /\ TotalsMatch(result.items, result.total_usd, result.total_coins,
                         result.total_shards)
          /\ result.item_count = Len(result.items)

\* the visit of one item element (used by C9)
C9_ItemStep ==
    (pc = "items" /\ ii' = ii + 1) =>
        LET item_name == ItemName(cosmetic_items[ii])
            item_data == find_item_in_database(item_name, items_lookup)
            resolved  == item_name # NoElem /\ item_name # <<>> /\ item_data # None
            record    == [name |-> item_name, category |-> category_name,
                          usd |-> parse_currency(item_data.usd),
                          coins |-> parse_currency(item_data.coins),
                          shards |-> parse_currency(item_data.shards)]
        IN  /\ pc' = "items"
            /\ \/ UNCHANGED <<owned_items, total_usd, total_coins, total_shards>>
               \/ /\ resolved
                  /\ owned_items' = Append(owned_items, record)
                  /\ total_usd' = total_usd + record.usd
                  /\ total_coins' = total_coins + record.coins
                  /\ total_shards' = total_shards + record.shards
            /\ ~resolved =>
                  UNCHANGED <<owned_items, total_usd, total_coins, total_shards>>

\* C9: at every point of the category loop and in every success record the
\* three totals are the sums of the fields of the records in items, and
\* item_count is their number; the visit of an item element whose name the
\* matcher resolves appends one record holding its three parsed values and
\* adds them to the totals, and every other visit changes neither the items
\* nor a total; no visit ends the item loop.
C9_TotalsAreSums == []C9_Sums /\ [][C9_ItemStep]_vars

\* Antler and Cute Cowboy were valued, the unmatched name was left out
C9_Witness ==
    /\ pc = "returned"
    /\ page = <<SecArtifact, SecMount>>
    /\ SuccessShape(result)
    /\ result.item_count = 2
    /\ result.total_usd = 5100
    /\ result.total_coins = 306000000
    /\ result.categories_processed = 2

\* the positions of an iteration after ReadCount
ExpandPcs == {"toggle", "click", "select", "enumerate", "items", "collapse"}

\* the counter of the section the name locates reports an owned count of 0
ReportsZero(name) ==
    LET sec   == Relocate(page, Sections(page), name)
        match == ParseCount(CountText(page[sec].h3))
    IN  sec # 0 /\ match # <<>> /\ match[1] = 0

\* what holds of a category that reports 0 owned in every state (used by C10)
C10_NeverExpanded ==
    /\ pc \in ExpandPcs => ~ReportsZero(category_name) /\ owned_count > 0
    /\ (pc = "returned" /\ main_categories # <<>>) =>
          /\ attempted = Len(main_categories)
          /\ (\A i \in 1..Len(main_categories) :
                  ReportsZero(main_categories[i].category_name)) =>
                /\ SuccessShape(result)
                /\ result.item_count = 0
                /\ result.categories_processed = 0

\* a step that adds an item or counts a category as processed (used by C10)
C10_NothingAdded ==
    (pc \in LoopPcs /\ (owned_items' # owned_items
                          \/ categories_processed' # categories_processed)) =>
        ~ReportsZero(category_name)

\* C10: a category whose counter reports 0 owned never gets past ReadCount
\* (no toggle lookup, click or filter selection); no step made for it adds
\* an item or increments categories_processed; the categories after it are
\* still started; and when every category reports 0 the record is success
\* with item_count 0 and categories_processed 0.
C10_ZeroOwnedShortCircuits == []C10_NeverExpanded /\ [][C10_NothingAdded]_vars

\* two categories that report 0/50, both started, none expanded
C10_Witness ==
    /\ pc = "returned"
    /\ page = <<SecCape, SecCape>>
    /\ attempted = 2
    /\ ~failed
    /\ SuccessShape(result)
    /\ result.item_count = 0
    /\ result.categories_processed = 0

\* the followed command has ended: it is not in flight, its scrape has
\* returned a record, no session of it is open, its identifier is not in
\* the in-flight set
C11_Finished ==
    /\ \A h \in InFlight : h.ign # ign
    /\ pc = "idle"
    /\ FailureShape(result) \/ SuccessShape(result)
    /\ driver # "open"
    /\ Lower(ign) \notin active_evaluations

\* C11: a command handed to the executor, whether a worker is free or all
\* three are held by other commands, eventually ends: its scrape returns a
\* success or failure record, quit has been invoked on the session the
\* scrape held, and its identifier has left active_evaluations, for good.
\* (The browser that a half-made session leaves behind is the matter of C12.)
C11_EventuallyFinishes == <>[]C11_Finished

\* the followed command waited for a worker, scraped a page to the success
\* record and ended, while another command has yet to send its reply
C11_Witness ==
    /\ C11_Finished
    /\ SuccessShape(result)
    /\ result.item_count > 0
    /\ \E h \in InFlight : h.ign = Al /\ h.pc = "reply_error"

\* C12: a session construction that failed (scrape_inventory holds no
\* session) leaves no browser running when the scrape has returned.
C12_NoBrowserLeftBehind ==
    (pc = "returned" /\ driver = "None") => browser # "running"

\* the step of the finally clause (used by C13)
C13_FinallyStep ==
    pc = "finally" =>
        /\ pc' = "returned"
        /\ result' = result
        /\ FailureShape(result) \/ SuccessShape(result)

\* C13: the finally clause returns the record that the try block or the
\* except clause made, unchanged, whether driver.quit() returns or raises:
\* a failure of quit neither replaces a success record, nor the error of a
\* failure record, nor stops the return.
C13_TeardownFailureSwallowed == [][C13_FinallyStep]_vars

\* a scrape that returned its success record although quit raised
C13_Witness ==
    /\ pc = "returned"
    /\ teardown = "raised"
    /\ SuccessShape(result)
    /\ result.item_count > 0

\* C14: no scrape runs for a player name that is empty after trimming or
\* longer than 32 characters after trimming, whichever entry point received
\* the name.
C14_InvalidNamesNeverScraped ==
    \A h \in Running : Strip(h.ign) # <<>> /\ Len(Strip(h.ign)) <= 32

\* load_items_database has returned; find_item_in_database has returned;
\* parse_currency has returned
Loaded == pc \in {"find", "parse", "called"}
Found  == pc \in {"parse", "called"}
Parsed == pc = "called"

\* the value the index holds under a key
Under(k) == items_lookup[CHOOSE i \in 1..Len(items_lookup) : items_lookup[i].key = k].value

\* the fuzzy condition of the claim on the normalized name and the i-th key
C15_Fuzzy(clean, i) ==
    LET key == items_lookup[i].key
        a   == Len(clean)
        b   == Len(key)
    IN  /\ a > 4 /\ b > 4
        /\ IF a <= b THEN 100 * a >= 80 * b ELSE 100 * b >= 80 * a
        /\ \/ \E k \in 0..(b - a) : \A j \in 1..a : key[k + j] = clean[j]
           \/ \E k \in 0..(a - b) : \A j \in 1..b : clean[k + j] = key[j]

\* C15: find_item_in_database returns the entry under the lower-cased
\* trimmed name when that is a key; otherwise the entry under the normalized
\* name when that is a key; otherwise the entry of the first key, in the
\* order of the index, that passes the fuzzy condition; otherwise None.
C15_ThreeStepsInOrder ==
    Found =>
        LET lower == Strip(Lower(call.item_name))
            clean == SelectSeq(lower, LAMBDA c : IsWord(c) \/ IsSpace(c))
            keys  == {items_lookup[i].key : i \in 1..Len(items_lookup)}
            fuzzy == {i \in 1..Len(items_lookup) : C15_Fuzzy(clean, i)}
        IN  IF lower \in keys THEN call.item_data = Under(lower)
            ELSE IF clean \in keys THEN call.item_data = Under(clean)
            ELSE IF fuzzy # {}
                 THEN \E i \in fuzzy : /\ \A j \in fuzzy : i <= j
                                        /\ call.item_data = items_lookup[i].value
            ELSE call.item_data = None

\* "Golden Crow" against the index of Golden Crowns, Golden Crown: both
\* keys pass the fuzzy condition and the first one is returned
C15_Witness ==
    /\ Found
    /\ call.items_file = ItemsFile(TRUE, TRUE, "ok", <<GoldenCrowns, GoldenCrown>>)
    /\ call.item_name = <<"G","o","l","d","e","n"," ","C","r","o","w">>
    /\ call.item_data = GoldenCrowns

\* the lower-cased name of the entry Cute Cowboy, and the spellings next to it
cute_cowboy   == <<"c","u","t","e"," ","c","o","w","b","o","y">>
cute__cowboy  == <<"c","u","t","e"," "," ","c","o","w","b","o","y">>
cute_cowboy_x == <<"c","u","t","e"," ","c","o","w","b","o","y","!">>

\* the index holds the entry Cute Cowboy under its key
HasCuteCowboy == cute_cowboy \in {items_lookup[i].key : i \in 1..Len(items_lookup)}
                 /\ Under(cute_cowboy) = CuteCowboy

\* C16 as claimed: with Cute Cowboy in the catalog, a query that differs
\* from the name in letter case and outer whitespace only resolves to the
\* entry, and so does "cute  cowboy" with two spaces.
C16_AsClaimed ==
    (Found /\ HasCuteCowboy) =>
        (Strip(Lower(call.item_name)) \in {cute_cowboy, cute__cowboy}
            => call.item_data = CuteCowboy)

\* C16: with Cute Cowboy in the catalog, a query that differs from the name
\* in letter case and outer whitespace only resolves to the entry, and so
\* does one that differs by punctuation ("Cute Cowboy!", through the
\* normalized name); "cute  cowboy" with two spaces does not resolve to it.
C16_CaseAndOuterWhitespace ==
    (Found /\ HasCuteCowboy) =>
        /\ Strip(Lower(call.item_name)) \in {cute_cowboy, cute_cowboy_x}
              => call.item_data = CuteCowboy
        /\ Strip(Lower(call.item_name)) = cute__cowboy
              => call.item_data # CuteCowboy

\* "\tCUTE  COWBOY " looked up in the catalog of the dummy file: None
C16_Witness ==
    /\ Found
    /\ HasCuteCowboy
    /\ call.item_name = <<"\t">> \o Upper(cute__cowboy) \o <<" ">>
    /\ call.item_data = None

\* the catalog whose only entry is Antler
OnlyAntler == call.items_file = ItemsFile(TRUE, TRUE, "ok", <<Antler>>)

\* C17 as claimed: with a catalog whose only entry is Antler, "Antler Cap"
\* resolves to that entry.
C17_AsClaimed ==
    (Found /\ OnlyAntler /\ call.item_name = <<"A","n","t","l","e","r"," ","C","a","p">>) => call.item_data = Antler

\* C17: with a catalog whose only entry is Antler, "Antler Cap" resolves to
\* None (6 / 10 < 0.80) and "Antlers" resolves to the entry through the
\* fuzzy step (6 / 7 >= 0.80).
C17_AntlerCapUnmatched ==
    (Found /\ OnlyAntler) =>
        /\ call.item_name = <<"A","n","t","l","e","r"," ","C","a","p">> => call.item_data = None
        /\ call.item_name = <<"A","n","t","l","e","r","s">> => call.item_data = Antler

C17_Witness ==
    /\ Found
    /\ OnlyAntler
    /\ call.item_name = <<"A","n","t","l","e","r"," ","C","a","p">>
    /\ call.item_data = None

\* C18: a query whose normalized form has 4 characters or fewer resolves
\* to the entry under its lower-cased or normalized form or to None, and an
\* entry returned for a query that is no key is held under a key longer
\* than 4 characters, for a normalized query longer than 4 characters.
C18_ShortNamesNeverFuzzy ==
    Found =>
        LET lower == Strip(Lower(call.item_name))
            clean == CleanName(lower)
            keys  == {items_lookup[i].key : i \in 1..Len(items_lookup)}
        IN  /\ (Len(clean) <= 4 /\ call.item_data # None) =>
                  \/ lower \in keys /\ call.item_data = Under(lower)
                  \/ clean \in keys /\ call.item_data = Under(clean)
            /\ (lower \notin keys /\ clean \notin keys /\ call.item_data # None) =>
                  /\ Len(clean) > 4
                  /\ \E i \in 1..Len(items_lookup) :
                        /\ items_lookup[i].value = call.item_data
                        /\ Len(items_lookup[i].key) > 4

\* "Arro" against the keys "bolt" and "arrow": contained in "arrow", 4 / 5
\* of its length, and not resolved
C18_Witness ==
    /\ Found
    /\ call.items_file = ItemsFile(TRUE, TRUE, "ok", <<Bolt, Nameless, Arrow>>)
    /\ call.item_name = <<"A","r","r","o">>
    /\ call.item_data = None

\* C19: parse_currency returns a number for every input: 50.0 for "$50.00",
\* 3000000.0 for "3,000,000 Coins"; 0.0 for "", for "N/A", for an input
\* without a digit or decimal point and for one whose digits and points do
\* not spell a decimal (two points, a point alone); otherwise the number
\* that the digits and the point spell (amounts count hundredths; the
\* inputs have at most 2 digits after the point).
C19_ParseCurrency ==
    Parsed =>
        LET v      == call.value_str
            kept   == SelectSeq(v, LAMBDA c : IsDigit(c) \/ c = ".")
            digits == SelectSeq(v, LAMBDA c : IsDigit(c))
            points == Len(kept) - Len(digits)
            after  == IF points = 1
                      THEN Len(kept) - (CHOOSE i \in 1..Len(kept) : kept[i] = ".")
                      ELSE 0
        IN  /\ call.amount \in Nat
            /\ v = <<"$","5","0",".","0","0">> => call.amount = 5000
            /\ v = <<"3",",","0","0","0",",","0","0","0"," ","C","o","i","n","s">> => call.amount = 300000000
            /\ (v = <<>> \/ v = <<"N","/","A">> \/ digits = <<>> \/ points >= 2)
                  => call.amount = 0
            /\ (digits # <<>> /\ points = 0) => call.amount = 100 * DigitsToInt(digits)
            /\ (digits # <<>> /\ points = 1 /\ after = 2) => call.amount = DigitsToInt(digits)
            /\ (digits # <<>> /\ points = 1 /\ after = 1) => call.amount = 10 * DigitsToInt(digits)
            /\ (digits # <<>> /\ points = 1 /\ after = 0) => call.amount = 100 * DigitsToInt(digits)

\* "$1,234.56" gives 1234.56
C19_Witness ==
    /\ Parsed
    /\ call.value_str = <<"$","1",",","2","3","4",".","5","6">>
    /\ call.amount = 123456

\* the index of the dummy catalog
DummyIndex ==
    << [key |-> cute_cowboy, value |-> CuteCowboy],
       [key |-> Lower(Antler.name), value |-> Antler] >>

Named(items) == SelectSeq(items, LAMBDA item : item.name # NoKey)

\* C21: a catalog source that exists but is malformed or lacks the 'items'
\* collection gives the empty index; an entry without a 'name' is left out
\* of the index, which is the index of the other entries alone.
C21_BrokenSourceGivesEmptyIndex ==
    LET file == call.items_file
    IN  /\ (Loaded /\ file.exists /\ file.data.kind \in {"malformed", "nokey"}) =>
              items_lookup = <<>>
        /\ (Loaded /\ file.exists /\ file.data.kind = "ok") =>
              /\ items_lookup = load_items_database(
                                    ItemsFile(TRUE, TRUE, "ok", Named(file.data.items)))
              /\ \A i \in 1..Len(file.data.items) :
                    LET item == file.data.items[i]
                    IN  item.name # NoKey =>
                           /\ DictHas(items_lookup, Strip(Lower(item.name)))
                           /\ DictHas(items_lookup, CleanName(Strip(Lower(item.name))))
              /\ \A i \in 1..Len(items_lookup) : items_lookup[i].value.name # NoKey

\* the file of Bolt, an entry without a name and Arrow was loaded: the index
\* holds Bolt and Arrow
C21_Witness ==
    /\ Loaded
    /\ call.items_file = ItemsFile(TRUE, TRUE, "ok", <<Bolt, Nameless, Arrow>>)
    /\ items_lookup = << [key |-> Lower(Bolt.name), value |-> Bolt],
                         [key |-> Lower(Arrow.name), value |-> Arrow] >>

\* C22: no step of a scrape, of a name lookup or of an inventory request
\* changes the catalog index that was loaded at process start, whatever the
\* other commands do in between.
C22_CatalogIndexNeverChanged == [][items_lookup' = items_lookup]_vars

\* the followed scrape matched an item in the index while the scrape of
\* another command runs, and the index is the one that was loaded
C22_Witness ==
    /\ pc = "items"
    /\ owned_items # <<>>
    /\ \E h \in InFlight : h.ign # ign /\ h.pc = "running"
    /\ items_lookup = load_items_database(NoItemsFile)

\* the section that the header text `name' locates on the page: the first
\* one with this header
Located(name) ==
    page[CHOOSE i \in 1..Len(page) :
            page[i].h6 = name /\ \A j \in 1..(i - 1) : page[j].h6 # name]

\* the owned and total counts that the counter of a section spells, <<>>
\* when the section has no counter text with a '/' or its first one does not
\* start with optional '[', digits, '/', digits
Counter(sec) ==
    CASE sec = SecArtifact   -> <<1, 10>>
      [] sec = SecCape       -> <<0, 50>>
      [] sec = SecMount      -> <<3, 295>>
      [] sec = SecProjectile -> <<2, 7>>
      [] sec = SecArtifactAgain -> <<2, 10>>
      [] OTHER               -> <<>>

\* the main categories started so far whose counter spells an owned count
\* above 0
Countable ==
    {i \in 1..Len(main_categories) :
        /\ i <= ci
        /\ Counter(Located(main_categories[i].category_name)) # <<>>
        /\ Counter(Located(main_categories[i].category_name))[1] > 0}

\* C23: "5/295" and "[5/295]" parse to owned 5 and total 295; a category is
\* expanded only with the owned count that its first counter text with a
\* '/' spells; a category without such a text, or whose text does not
\* parse, is never expanded, has no item in owned_items and is not counted
\* in categories_processed, and the categories after it are still started.
C23_CounterParsedOrSkipped ==
    /\ ParseCount(<<"5","/","2","9","5">>) = <<5, 295>>
    /\ ParseCount(<<"[","5","/","2","9","5","]">>) = <<5, 295>>
    /\ pc \in ExpandPcs =>
          /\ Counter(Located(category_name)) # <<>>
          /\ owned_count = Counter(Located(category_name))[1]
    /\ \A i \in 1..Len(owned_items) : Counter(Located(owned_items[i].category)) # <<>>
    /\ categories_processed <= Cardinality(Countable)
    /\ (pc = "returned" /\ SuccessShape(result)) =>
          result.categories_processed <= Cardinality(Countable)
    /\ (pc = "returned" /\ main_categories # <<>>) => attempted = Len(main_categories)

\* the counter text "Owned 4/9" of the first category does not parse and the
\* category is skipped; the second one, with the counter "[3/295]", is
\* processed
C23_Witness ==
    /\ pc = "returned"
    /\ page = <<SecKillphrase, SecMount>>
    /\ attempted = 2
    /\ SuccessShape(result)
    /\ result.categories_processed = 1
    /\ result.item_count = 1
    /\ result.items[1].category = Mount

\* the page has one Artifact section, which reports 1/10 and lists the item
\* "Antler", and its other sections are no main category or report 0 owned
OnlyArtifactOwned ==
    \E i \in 1..Len(page) :
        /\ page[i] = SecArtifact
        /\ \A j \in 1..Len(page) : j # i => page[j] \in {SecCape, SecFriends, SecNoHeader}

\* C24: with a catalog that holds Antler ($1.00, 60,000 Coins), a page
\* whose only category with owned items is Artifact (1/10, the item "Antler")
\* and every operation on the page succeeding, scrape_inventory returns
\* success, item_count 1, total_usd 1.0, total_coins 60000.0 and
\* categories_processed 1 (amounts in hundredths).
C24_AntlerScrape ==
    (/\ behaviour = "succeeds"
     /\ pc = "returned"
     /\ DictHas(items_lookup, Lower(Antler.name))
     /\ OnlyArtifactOwned) =>
        /\ SuccessShape(result)
        /\ result.item_count = 1
        /\ result.items[1].name = Antler.name
        /\ result.total_usd = 100
        /\ result.total_coins = 6000000
        /\ result.categories_processed = 1

\* the scrape of a Cape section that reports 0/50 and of the Artifact
\* section has returned, every operation having succeeded
C24_Witness ==
    /\ behaviour = "succeeds"
    /\ pc = "returned"
    /\ items_lookup = load_items_database(ItemsFile(TRUE, TRUE, "ok", <<Antler>>))
    /\ page = <<SecCape, SecArtifact>>
    /\ result.success
    /\ result.item_count = 1

\* the scrape is about to make an operation on the page
Asks ==
    \/ pc \in {"call", "get", "probe", "scroll", "discover", "count", "toggle", "click",
               "select", "enumerate", "collapse"}
    \/ pc = "locate" /\ ci <= Len(main_categories)
    \/ pc = "items" /\ ii <= Len(cosmetic_items)
    \/ pc = "finally" /\ SessionToQuit

C26_NoStaleHandleRead ==
    /\ ~misused
    /\ pc \in {"select", "enumerate"} => stale = Handles
    /\ pc \in {"count", "toggle"} => "category" \notin stale
    /\ pc = "click" => "dropdown_toggle" \notin stale
    /\ pc = "items" => "cosmetic_items" \notin stale

\* a category was expanded, filtered, enumerated and collapsed, an item of
\* it is owned, and the next category is about to be located
C26_Witness ==
    /\ pc = "locate"
    /\ ci = 2
    /\ categories_processed = 1
    /\ owned_items # <<>>
    /\ ~failed
    /\ ~misused

\* the way in which the operation of the step ended
Outcome ==
    IF behaviour = "recorded" THEN responses'[Len(responses')].got
    ELSE responses[1].got

\* a step of safe_click: an attempt that goes through ends the clicks, a
\* failed first or second attempt is followed by the next attempt, and a
\* failed third attempt on the expand toggle leaves the category
C27_ClickStep ==
    (pc = "click" /\ behaviour \in {"recorded", "replayed"}) =>
        /\ click_attempt \in 0..2
        /\ Outcome = "ok" =>
              /\ pc' # "click"
              /\ click_for = "expand" =>
                    pc' = "select" /\ UNCHANGED <<ci, failed, totals, result>>
        /\ (Outcome # "ok" /\ click_attempt < 2) =>
              /\ pc' = "click"
              /\ click_attempt' = click_attempt + 1
              /\ UNCHANGED <<ci, click_for, category, failed, totals, result>>
        /\ (Outcome # "ok" /\ click_attempt = 2 /\ click_for = "expand") =>
              /\ pc' = "locate"
              /\ ci' = ci + 1
              /\ failed'
              /\ UNCHANGED <<totals, result>>

\* C27: safe_click makes at most 3 attempts and stops at the first that goes
\* through; when the third attempt on the expand toggle fails (stale element
\* or another failure) the category is left with no item added and
\* categories_processed as it was, and the scrape goes on with the next
\* category.
C27_SafeClickRetries == [][C27_ClickStep]_vars

\* the three attempts on the expand toggle of the only category failed, and
\* the scrape has returned a success record without item or category
C27_Witness ==
    /\ behaviour = "recorded"
    /\ pc = "returned"
    /\ Cardinality({i \in 1..Len(responses) :
                       responses[i].at = "click" /\ responses[i].got # "ok"}) = 3
    /\ SuccessShape(result)
    /\ result.item_count = 0
    /\ result.categories_processed = 0

\* the label that the filter selection of a section ends on: "Show Owned"
\* where the control has it (before "Owned", which the control of the
\* Artifact section lists first), the first label that contains "owned" in
\* any case where it has none of the three spellings (the Mount section),
\* NoElem where no label qualifies (the Projectile section)
Label(sec) ==
    CASE sec.options = <<ShowAll, Owned, ShowOwned>>     -> ShowOwned
      [] sec.options = <<ShowAll, ShowOwned>>            -> ShowOwned
      [] sec.options = <<ShowAll, OnlyOWNED, Unowned>>   -> OnlyOWNED
      [] sec.options = <<ShowAll>>                       -> NoElem

\* the main categories started so far whose filter control has a label
\* that qualifies
Filterable ==
    {i \in 1..Len(main_categories) :
        i <= ci /\ Label(Located(main_categories[i].category_name)) # NoElem}

\* what holds of the filter selection in every state (used by C28)
C28_SelectedBeforeItems ==
    /\ pc \in {"enumerate", "items", "collapse"} =>
          /\ selected # NoElem
          /\ selected = Label(Located(category_name))
    /\ pc \in {"locate", "count", "toggle", "select"} => selected = NoElem
    /\ \A i \in 1..Len(owned_items) : Label(Located(owned_items[i].category)) # NoElem
    /\ pc \in LoopPcs => categories_processed <= Cardinality(Filterable)

\* the step of the filter selection (used by C28)
C28_SelectStep ==
    (pc = "select" /\ behaviour \in {"recorded", "replayed"}) =>
        IF Outcome = "sections" /\ Label(Located(category_name)) # NoElem
        THEN /\ pc' = "enumerate"
             /\ selected' = Label(Located(category_name))
             /\ UNCHANGED <<ci, totals, result>>
        ELSE /\ pc' = "locate"
             /\ ci' = ci + 1
             /\ UNCHANGED <<totals, result>>

\* C28: the items of a category are enumerated only after the selection of
\* an owned-only label in its filter control: "Show Owned", "Owned" and
\* "show owned" in this order, else the first label that contains "owned"
\* in any case; when no label qualifies, or the section or its control is
\* not found, the category is left with no item added and
\* categories_processed as it was.
C28_OwnedFilterFirst == []C28_SelectedBeforeItems /\ [][C28_SelectStep]_vars

\* the control of the Mount section has none of the three spellings: "Only
\* OWNED" was selected and the items were read after it
C28_Witness ==
    /\ behaviour = "recorded"
    /\ page = <<SecMount>>
    /\ pc = "collapse"
    /\ selected = OnlyOWNED
    /\ owned_items # <<>>

\* the item elements that give no name: neither selector finds a text block,
\* or the text found is white space only
GivesNoName ==
    {[primary |-> NoElem, fallback |-> NoElem],
     [primary |-> <<" ">>, fallback |-> NoElem]}

\* a step of Enumerate: an attempt that returns item elements ends the
\* lookups, an attempt that returns none is followed by the next one, and
\* the third attempt ends them in any case (used by C29)
C29_EnumerateStep ==
    (pc = "enumerate" /\ behaviour \in {"recorded", "replayed"}) =>
        /\ attempt \in 0..2
        /\ ci' = ci
        /\ UNCHANGED <<totals, result>>
        /\ Outcome = "items" =>
              /\ pc' = "items"
              /\ cosmetic_items' = Located(category_name).items
              /\ cosmetic_items' # <<>>
              /\ ii' = 1
        /\ (Outcome # "items" /\ attempt < 2) =>
              /\ pc' = "enumerate"
              /\ attempt' = attempt + 1
        /\ (Outcome # "items" /\ attempt = 2) =>
              /\ pc' = "items"
              /\ cosmetic_items' = <<>>

\* a step of the item loop: the visit of an element goes on to the element
\* after it, adding nothing when the element gives no name or its name is
\* not read; after the last element the category counts as processed
\* (used by C29)
C29_ItemStep ==
    (pc = "items" /\ behaviour \in {"recorded", "replayed"}) =>
        /\ ci' = ci
        /\ result' = result
        /\ IF ii <= Len(cosmetic_items)
           THEN /\ pc' = "items"
                /\ ii' = ii + 1
                /\ cosmetic_items' = cosmetic_items
                /\ categories_processed' = categories_processed
                /\ (~Outcome \/ cosmetic_items[ii] \in GivesNoName) => totals' = totals
                /\ owned_items' # owned_items =>
                      /\ Len(owned_items') = Len(owned_items) + 1
                      /\ owned_items'[Len(owned_items')].category = category_name
           ELSE /\ pc' = "collapse"
                /\ categories_processed' = categories_processed + 1
                /\ UNCHANGED <<owned_items, total_usd, total_coins, total_shards>>

\* C29: in Enumerate the item lookup is attempted at most 3 times and stops
\* at the first attempt that returns at least one item element; then every
\* item element is visited in order, and an element whose name cannot be
\* read by the primary selector nor by the fallback selector, or whose name
\* is empty, is skipped alone: every later element of the category is still
\* processed and the category still counts as processed.
C29_EnumerateThenEveryItem == [][C29_EnumerateStep /\ C29_ItemStep]_vars

\* the third lookup returned the four item elements of the Mount section;
\* two of them give no name, one has a name that is not in the catalog, and
\* the last one was valued; the category was counted
C29_Witness ==
    /\ behaviour = "recorded"
    /\ page = <<SecMount>>
    /\ pc = "returned"
    /\ Cardinality({i \in 1..Len(responses) :
                       responses[i].at = "enumerate" /\ responses[i].got # "items"}) = 2
    /\ \A i \in 1..Len(responses) : responses[i].at = "items" => responses[i].got
    /\ SuccessShape(result)
    /\ result.item_count = 1
    /\ result.categories_processed = 1

\* a step of Collapse, its clicks included: whatever its outcome, the items,
\* the totals and the count of processed categories stay as they are and no
\* record is made; a failure goes on to the next category (used by C30)
C30_CollapseStep ==
    (/\ behaviour \in {"recorded", "replayed"}
     /\ pc = "collapse" \/ (pc = "click" /\ click_for = "collapse")) =>
        /\ UNCHANGED <<owned_items, total_usd, total_coins, total_shards,
                       categories_processed, result>>
        /\ categories_processed >= 1
        /\ (pc = "collapse" /\ Outcome = "toggle") =>
              pc' = "click" /\ click_for' = "collapse" /\ ci' = ci
        /\ (pc = "collapse" /\ Outcome # "toggle") =>
              pc' = "locate" /\ ci' = ci + 1
        /\ (pc = "click" /\ Outcome # "ok" /\ click_attempt < 2) =>
              pc' = "click" /\ click_for' = "collapse" /\ ci' = ci
        /\ (pc = "click" /\ Outcome # "ok" /\ click_attempt = 2) =>
              pc' = "locate" /\ ci' = ci + 1

\* C30: a failure during Collapse (section not re-located, toggle not
\* found, click retries exhausted) never fails the category: the category's
\* items and their contribution to the totals are kept, categories_processed
\* stays incremented for it, and processing continues with the next category.
C30_CollapseFailureKeepsCategory == [][C30_CollapseStep]_vars

\* the three clicks on the toggle that collapses the Artifact section
\* failed; the record returned has the item of the section, its value and
\* the category
C30_Witness ==
    /\ behaviour = "recorded"
    /\ page = <<SecArtifact>>
    /\ pc = "returned"
    /\ Cardinality({i \in 1..Len(responses) :
                       responses[i].at = "click" /\ responses[i].got # "ok"}) = 3
    /\ SuccessShape(result)
    /\ result.item_count = 1
    /\ result.total_usd > 0
    /\ result.categories_processed = 1

\* the five names of the main categories
FiveNames == {Artifact, Cape, Killphrase, Projectile, Mount}

\* the sections of the page whose trimmed header text is one of the five
MainSections ==
    {s \in 1..Len(page) : page[s].h6 # NoElem /\ Strip(page[s].h6) \in FiveNames}

\* the place of a category name in the list of the main categories
Pos(name) ==
    CHOOSE i \in 1..Len(main_categories) :
        /\ main_categories[i].category_name = name
        /\ \A j \in 1..(i - 1) : main_categories[j].category_name # name

\* C31: only sections whose trimmed header text is one of Artifact, Cape,
\* Killphrase, Projectile, Mount are ever expanded or enumerated; they are
\* processed one after another in the order the page lists them (the
\* section read for a main category is the section that the filter listed
\* at its place), and the records of items are in that category order.
C31_MainSectionsInPageOrder ==
    pc \in LoopPcs =>
        /\ Len(main_categories) = Cardinality(MainSections)
        /\ \A i \in 1..Len(main_categories) :
              /\ main_categories[i].category \in MainSections
              /\ main_categories[i].category_name
                    = Strip(page[main_categories[i].category].h6)
              /\ \A j \in 1..(i - 1) :
                    main_categories[j].category < main_categories[i].category
        /\ ci \in 1..(Len(main_categories) + 1)
        /\ pc \in ExpandPcs => category_name \in FiveNames
        /\ pc \in {"count", "toggle", "click"} => category \in MainSections
        /\ pc \in {"toggle", "click"} => category = main_categories[ci].category
        /\ \A k \in 1..Len(owned_items) :
              /\ owned_items[k].category \in FiveNames
              /\ Pos(owned_items[k].category) <= ci
              /\ \A l \in 1..(k - 1) :
                    Pos(owned_items[l].category) <= Pos(owned_items[k].category)

\* the two keys of a named entry: its lower-cased trimmed name, and that
\* name without the characters that are neither word characters nor spaces
KeysOf(item) ==
    LET name_lower == Strip(Lower(item.name))
    IN  {name_lower, SelectSeq(name_lower, LAMBDA c : IsWord(c) \/ IsSpace(c))}

\* the places in the source of the named entries that produce the key
Producers(items, key) ==
    {i \in 1..Len(items) : items[i].name # NoKey /\ key \in KeysOf(items[i])}

\* C32: load_items_database stores each named entry under two keys, its
\* lower-cased trimmed name and that name with punctuation removed; when two
\* entries produce the same key of either form, the index maps the key to
\* the entry that comes later in the source, so every key of the index maps
\* to exactly one entry of the source.  (Stated of the index as the load
\* returns it.)
C32_TwoKeysLastWriteWins ==
    LET file  == call.items_file
        items == file.data.items
    IN  (pc = "find" /\ file.exists /\ file.data.kind = "ok") =>
           /\ \A i \in 1..Len(items) :
                 items[i].name # NoKey =>
                    \A key \in KeysOf(items[i]) : DictHas(items_lookup, key)
           /\ \A n \in 1..Len(items_lookup) :
                 LET from == Producers(items, items_lookup[n].key)
                 IN  /\ from # {}
                     /\ items_lookup[n].value
                           = items[CHOOSE i \in from : \A j \in from : j <= i]
                     /\ \A o \in 1..Len(items_lookup) :
                           items_lookup[o].key = items_lookup[n].key => o = n

\* "dragons eye" is the name of the first entry and the name without
\* punctuation of the second: the index has the second entry under both of
\* its keys, and the first entry under none
C32_Witness ==
    /\ pc = "find"
    /\ call.items_file = ItemsFile(TRUE, TRUE, "ok", <<DragonsEyePlain, DragonsEye, Bolt>>)
    /\ DictGet(items_lookup, <<"d","r","a","g","o","n","s"," ","e","y","e">>) = DragonsEye
    /\ DictGet(items_lookup, <<"d","r","a","g","o","n","'","s"," ","e","y","e">>) = DragonsEye
    /\ Len(items_lookup) = 3
    /\ DragonsEye.usd # DragonsEyePlain.usd

\* Collapse is under way: the section is being re-located for it, or its
\* toggle is being clicked
Collapsing == pc = "collapse" \/ (pc = "click" /\ click_for = "collapse")

\* a step of the category loop seen from Collapse: it begins at the end of
\* the item loop, with the increment of categories_processed, and nowhere
\* else; an expanded category that is left before its items are enumerated
\* is followed by the location of the next category (used by C33)
C33_CollapseStep ==
    pc \in LoopPcs =>
        /\ (Collapsing' /\ ~Collapsing) =>
              /\ pc = "items"
              /\ ii > Len(cosmetic_items)
              /\ categories_processed' = categories_processed + 1
              /\ ci' = ci
              /\ pc' = "collapse"
        /\ Collapsing => (Collapsing' /\ ci' = ci) \/ (pc' = "locate" /\ ci' = ci + 1)
        /\ pc = "click" => click_for' = click_for \/ pc' = "locate"
        /\ (pc = "select" /\ pc' # "enumerate") =>
              /\ pc' = "locate"
              /\ ci' = ci + 1
              /\ categories_processed' = categories_processed
        /\ (pc = "click" /\ click_for = "expand") => pc' \in {"click", "select", "locate"}

\* C33: a collapse click is attempted for a category only after its
\* enumeration has finished and categories_processed has been incremented
\* for it; a category that was expanded and then skipped (section not
\* re-located after the expand, or filter selection failed) receives no
\* collapse attempt before the next category is started.
C33_CollapseOnlyAfterItems == [][C33_CollapseStep]_vars

\* on a page that answers every request, the Projectile section was
\* expanded, its control has no owned-only label, and the Artifact section
\* after it has been located with nothing counted so far
C33_Witness ==
    /\ behaviour = "succeeds"
    /\ page = <<SecProjectile, SecArtifact>>
    /\ pc = "count"
    /\ ci = 2
    /\ failed
    /\ categories_processed = 0

\* the inventory commands in flight for the identifier
CommandsFor(id) == {h \in InFlight : h.entry = "command" /\ Lower(h.ign) = id}

\* what holds of the commands in flight in every state: the identifier of
\* each is in the set, so that a further command for it is a duplicate, and
\* no other command for it is in flight (used by C34)
C34_StillListed ==
    \A h \in InFlight :
        h.entry = "command" =>
            /\ IsDuplicate(h.ign)
            /\ Copies(CommandsFor(Lower(h.ign))) = 1

\* a rejection by the inventory command leaves the set and the requests in
\* flight as they are (used by C34)
C34_RejectionStep ==
    (last' # last /\ last' \in {"invalid", "duplicate"}) =>
        UNCHANGED <<active_evaluations, handlers>>

\* C34: a request rejected as a duplicate, and a request rejected by name
\* validation, leave the in-flight set unchanged; the rejection of a
\* duplicate never removes the entry of the request that is still in
\* flight, so a third request for the same identifier is also rejected until
\* the first one finishes.
C34_RejectionsLeaveSetAlone == []C34_StillListed /\ [][C34_RejectionStep]_vars

\* a command for "Bob" is queued, a second one for the same identifier has
\* just been rejected, and the identifier is still in the set
C34_Witness ==
    /\ last = "duplicate"
    /\ active_evaluations = {Lower(Bob)}
    /\ Copies(InFlight) = 1
    /\ \E h \in InFlight : h.entry = "command" /\ h.pc = "queued" /\ Lower(h.ign) = Lower(Bob)

\* the name that an item element shows
Shown(item_element) ==
    IF item_element.primary # NoElem THEN Strip(item_element.primary)
    ELSE IF item_element.fallback # NoElem THEN Strip(item_element.fallback)
    ELSE NoElem

\* the item elements of the page that show the name in a section with the
\* header
ElementsOf(header, name) ==
    {se \in (1..Len(page)) \X (1..4) :
        /\ page[se[1]].h6 # NoElem
        /\ Strip(page[se[1]].h6) = header
        /\ se[2] <= Len(page[se[1]].items)
        /\ Shown(page[se[1]].items[se[2]]) = name}

\* the records accumulated for the name in the category
RecordsOf(header, name) ==
    {k \in 1..Len(owned_items) :
        owned_items[k].category = header /\ owned_items[k].name = name}

\* C35: for every page content, including a page on which two sections
\* carry the same one of the five category names, no section is enumerated
\* more than once in a scrape, so no owned item is counted twice in items
\* and totals (the records of a name in a category are no more than the
\* item elements that show it there) and categories_processed never
\* exceeds 5.
C35_NoSectionEnumeratedTwice ==
    /\ categories_processed <= 5
    /\ \A k \in 1..Len(owned_items) :
          Cardinality(RecordsOf(owned_items[k].category, owned_items[k].name))
             <= Cardinality(ElementsOf(owned_items[k].category, owned_items[k].name))

\* C36: the failure "No cosmetic categories found on profile" is raised
\* only when the section query found no section at all; when sections were
\* found and none has a header among the five category names, the scrape
\* returns success with no item, the three totals 0, item_count 0 and
\* categories_processed 0, and no section is clicked.
C36_NoMainCategoryIsSuccess ==
    /\ (FailureShape(result) /\ result.error = "No cosmetic categories found on profile") =>
          /\ last_query = "nothing"
          /\ main_categories = <<>>
          /\ attempted = 0
    /\ (last_query = "sections" /\ MainSections = {}) =>
          /\ pc \in {"filter", "locate", "finally", "returned"}
          /\ pc # "filter" => main_categories = <<>>
          /\ attempted = 0
          /\ pc \in {"finally", "returned"} =>
                /\ SuccessShape(result)
                /\ result.items = <<>>
                /\ result.total_usd = 0
                /\ result.total_coins = 0
                /\ result.total_shards = 0
                /\ result.item_count = 0
                /\ result.categories_processed = 0

\* the query found the two sections of the page, neither a main category,
\* and the scrape has returned the empty success record
C36_Witness ==
    /\ pc = "returned"
    /\ page = <<SecFriends, SecNoHeader>>
    /\ last_query = "sections"
    /\ attempted = 0
    /\ SuccessShape(result)
    /\ result.items = <<>>
    /\ result.categories_processed = 0

====
